---- MODULE Spec2Model ----
(***************************************************************************)
(* lrcshow-rs: the lyrics timing cursor (LrcTimedTextState), the player    *)
(* state kept by the main loop (Progress / PlayerState) and the loop       *)
(* `run` of src/main.rs that drives both.                                  *)
(*                                                                         *)
(* Durations and instants are natural numbers of milliseconds.             *)
(* Option<T> is the record [some |-> FALSE] or [some |-> TRUE, v |-> x].   *)
(* A reference into lyrics.timings is its 1-based index; 0 is None.        *)
(***************************************************************************)
EXTENDS Integers, Sequences, FiniteSets, TLC

VARIABLES
    \* ---- the cursor exercised on its own (SpecCursor) ----
    c_timings,   \* the Vec<LyricsTiming> the cursor borrows
    c_state,     \* Option<LrcTimedTextState>
    c_prev,      \* the cursor before the last call
    c_op,        \* last call: "none", "new", "on_new_progress"
    c_pos,       \* position given to the last call
    c_pop,       \* the call before the last one
    c_ppos,      \* position given to the call before the last one
    c_ret,       \* what the last on_new_progress returned
    c_old,       \* the Vec<LyricsTiming> the cursor borrowed before the last call
    \* ---- the loop of run() (Spec) ----
    now,                \* the monotonic clock
    pc,                 \* where the loop is
    receiver,           \* channel::<TimedEvent>: events sent, not yet drained
    timed_events,       \* the batch read_events returned, not yet processed
    received_events,    \* main.rs:358
    progress,           \* Option<Progress>
    player_owner_name,  \* Option<bus name>
    init,               \* main.rs:332
    lrc,                \* Option<LrcManager>
    lrc_state,          \* Option<LrcTimedTextState> over lrc.lyrics.timings
    files,              \* the lyrics files on disk: path -> content
    player,             \* the media player process, as the bus shows it
    current_timing,     \* Arc<Mutex<Option<LyricsTiming>>>
    active_lyrics_lines,\* Arc<Mutex<Option<Vec<String>>>>
    lrc_filepath,       \* the --lyrics option given to run()
    n_sent,             \* how many events the surroundings have caused so far
    bus,                \* the last ActiveLyricsSegmentChanged payloads sent
    step,               \* what the last step did
    \* ---- a lyrics file read and turned into a model (SpecLyrics) ----
    l_lines,     \* the lines of the file
    l_file,      \* what parse_lrc_file made of them
    l_lyrics,    \* the Lyrics built from l_file
    l_op,        \* "none", "parsed", "main" (main.rs Lyrics::new), "lrc"
    \* ---- the listener thread of player.rs and its channels (SpecListener) ----
    instant_now,          \* Instant::now()
    notified,             \* the bus notifications received so far, in order
    dbus_event_receiver,  \* channel::<TimedPlayerDbusEvent>: sent, not yet taken
    dbus_proxy_player,    \* run_sync's Option<Proxy>, as a flag
    listener,             \* the thread: "running", "panicked", "failed"
    handled,              \* the notification run_sync handled last
    sender,               \* channel::<TimedEvent>: sent, not yet drained
    senders,              \* who holds a sending end of that channel
    main,                 \* the loop that drains it: "running", "returned"
    applied,              \* the events the loop has taken, in order
    \* ---- the full-state query of player.rs (SpecQuery) ----
    q_properties,  \* the properties GetAll answered
    q_instant,     \* Instant::now() of the query
    q_result,      \* what parse_player_state returned
    q_op,          \* "none", "parsed"
    \* ---- the lyrics file manager of lrc_file_manager.rs (SpecWatcher) ----
    w_rx,            \* channel::<InputEvents>: sent, not yet taken
    w_lrc_filepath,  \* LrcManager.lrc_filepath
    w_watched,       \* the directories LrcManager.watcher watches
    w_files,         \* the lyrics files on disk: path -> content
    w_manager,       \* the thread of run_sync: "running", "panicked"
    w_handled,       \* what the last round of run_sync took and sent
    w_requests,      \* how many inputs the manager was given so far
    \* ---- the caches behind mutexes and their two threads (SpecLocks) ----
    k_loop,     \* what is left of the call the loop thread is in
    k_server,   \* what is left of the method call the server thread is in
    k_held,     \* mutex -> the thread that holds it, or "none"
    k_cache,    \* mutex -> the value it guards
    k_reply,    \* the value copied into the last reply
    k_level,    \* the level of the log
    k_calls,    \* how many calls were made so far
    \* ---- format_duration (SpecFormat) ----
    f_duration, \* the duration that is formatted, in milliseconds
    f_text      \* the text made of it, "" before

cvars == <<c_timings, c_state, c_prev, c_op, c_pos, c_pop, c_ppos, c_ret,
           c_old>>
lvars == <<now, pc, receiver, timed_events, received_events, progress,
           player_owner_name, init, lrc, lrc_state, files, player,
           current_timing, active_lyrics_lines, lrc_filepath, n_sent, bus,
           step>>
pvars == <<l_lines, l_file, l_lyrics, l_op>>
nvars == <<instant_now, notified, dbus_event_receiver, dbus_proxy_player,
           listener, handled, sender, senders, main, applied>>
qvars == <<q_properties, q_instant, q_result, q_op>>
wvars == <<w_rx, w_lrc_filepath, w_watched, w_files, w_manager, w_handled,
           w_requests>>
kvars == <<k_loop, k_server, k_held, k_cache, k_reply, k_level, k_calls>>
fvars == <<f_duration, f_text>>
tvars == <<nvars, qvars, wvars, kvars, fvars>>
vars == <<cvars, lvars, pvars, tvars>>

None == [some |-> FALSE]
Some(x) == [some |-> TRUE, v |-> x]

-----------------------------------------------------------------------------
(* The tick period and the lyrics timing model.                            *)

REFRESH_EVERY == 16

LyricsTiming(t, li, from, to) ==
    [time |-> t, line_index |-> li,
     line_char_from_index |-> from, line_char_to_index |-> to]

\* std::slice::Iter::next: `iter` is the number of items already taken.
IterNext(timings, iter) ==
    IF iter < Len(timings)
    THEN [item |-> iter + 1, iter |-> iter + 1]
    ELSE [item |-> 0, iter |-> iter]

\* Mutant: the scan stops at a mark whose time equals the position.
RECURSIVE NewWalk_ge(_, _, _, _, _)
NewWalk_ge(timings, v, current, next, iter) ==
    IF next = 0 \/ timings[next].time >= v
    THEN [current |-> current, next |-> next, iter |-> iter]
    ELSE LET n == IterNext(timings, iter)
         IN  NewWalk_ge(timings, v, next, n.item, n.iter)

\* The while-let loop of LrcTimedTextState::new.
RECURSIVE NewWalk(_, _, _, _, _)
NewWalk(timings, v, current, next, iter) ==
    IF next = 0 \/ timings[next].time > v
    THEN [current |-> current, next |-> next, iter |-> iter]
    ELSE LET n == IterNext(timings, iter)
         IN  NewWalk(timings, v, next, n.item, n.iter)

\* LrcTimedTextState::new(lrc, progress), v = progress.current_position().
LrcTimedTextState_new(timings, v) ==
    LET n == IterNext(timings, 0)
    IN  NewWalk(timings, v, 0, n.item, n.iter)

\* Mutant: the tolerance is the whole tick period.
Tolerance_full == REFRESH_EVERY

\* REFRESH_EVERY / 2
Tolerance == REFRESH_EVERY \div 2

\* LrcTimedTextState::on_new_progress.  Duration - Duration panics when the
\* result would be negative ("overflow when subtracting durations").
on_new_progress(st, timings, current_duration) ==
    IF st.next = 0
    THEN [state |-> st, ret |-> None, panic |-> FALSE]
    ELSE LET timed_text == timings[st.next]
         IN  IF timed_text.time < Tolerance
             THEN [state |-> st, ret |-> None, panic |-> TRUE]
             ELSE IF current_duration >= timed_text.time - Tolerance
                  THEN LET n == IterNext(timings, st.iter)
                       IN  [state |-> [current |-> st.next, next |-> n.item,
                                       iter |-> n.iter],
                            ret |-> Some(<<current_duration, timed_text>>),
                            panic |-> FALSE]
                  ELSE [state |-> st, ret |-> None, panic |-> FALSE]

-----------------------------------------------------------------------------
(* The cursor on its own: LrcTimedTextState::new and on_new_progress       *)
(* applied to bounded timing lists and positions.                          *)

MaxMarks == 3
MaxPos == 10
MarkTimes == {0, 5, 10}
ExampleTimings ==
    <<LyricsTiming(0, 0, 0, 1), LyricsTiming(1000, 1, 0, 1),
      LyricsTiming(2000, 2, 0, 1)>>
ExamplePositions == {1500, 1990, 1992, 1993}
Positions == (0..MaxPos) \cup ExamplePositions

TimingLists ==
    {ExampleTimings} \cup
    UNION {{[i \in 1..n |-> LyricsTiming(ts[i], i - 1, 0, 1)] :
              ts \in [1..n -> MarkTimes]} : n \in 0..MaxMarks}

CursorInit ==
    /\ c_timings \in TimingLists
    /\ c_state = None
    /\ c_prev = None
    /\ c_op = "none"
    /\ c_pos = 0
    /\ c_pop = "none"
    /\ c_ppos = 0
    /\ c_ret = None
    /\ c_old = c_timings

\* lrc_state = Some(LrcTimedTextState::new(&lyrics, progress))
CNew(p) ==
    /\ c_op # "panic"
    /\ c_state' = Some(LrcTimedTextState_new(c_timings, p))
    /\ c_prev' = c_state
    /\ c_op' = "new"
    /\ c_pos' = p
    /\ c_pop' = c_op
    /\ c_ppos' = c_pos
    /\ c_ret' = None
    /\ c_old' = c_timings
    /\ UNCHANGED <<c_timings, lvars, pvars, tvars>>

\* lrc_state.as_mut().and_then(|l| l.on_new_progress(progress))
COnNewProgress(p) ==
    /\ c_op # "panic"
    /\ c_state.some
    /\ LET r == on_new_progress(c_state.v, c_timings, p)
       IN  /\ c_state' = Some(r.state)
           /\ c_ret' = r.ret
           /\ c_op' = IF r.panic THEN "panic" ELSE "on_new_progress"
    /\ c_prev' = c_state
    /\ c_pos' = p
    /\ c_pop' = c_op
    /\ c_ppos' = c_pos
    /\ c_old' = c_timings
    /\ UNCHANGED <<c_timings, lvars, pvars, tvars>>

IsPrefix(a, b) == Len(a) <= Len(b) /\ SubSeq(b, 1, Len(a)) = a

\* What a rewritten file may hold: the old marks followed by more, no mark
\* at all, or other marks.
ReloadLists(old) ==
    {tl \in TimingLists : IsPrefix(old, tl)} \cup {<<>>, ExampleTimings}

\* Mutant: the reload starts the new cursor at position zero.
CReload_rewinds(tl) ==
    /\ c_op # "panic"
    /\ c_state.some
    /\ c_timings' = tl
    /\ c_state' = Some(LrcTimedTextState_new(tl, 0))
    /\ c_prev' = c_state
    /\ c_op' = "reload"
    /\ c_pos' = c_pos
    /\ c_pop' = c_op
    /\ c_ppos' = c_pos
    /\ c_ret' = None
    /\ c_old' = c_timings
    /\ UNCHANGED <<lvars, pvars, tvars>>

\* The lyrics reload: lrc = Some(new_lrc) and lrc_state =
\* new_lrc.new_timed_text_state(progress), while the player stands still
\* (the position is the one of the last call).
CReload(tl) ==
    /\ c_op # "panic"
    /\ c_state.some
    /\ c_timings' = tl
    /\ c_state' = Some(LrcTimedTextState_new(tl, c_pos))
    /\ c_prev' = c_state
    /\ c_op' = "reload"
    /\ c_pos' = c_pos
    /\ c_pop' = c_op
    /\ c_ppos' = c_pos
    /\ c_ret' = None
    /\ c_old' = c_timings
    /\ UNCHANGED <<lvars, pvars, tvars>>

NextCursor ==
    \/ \E p \in Positions : CNew(p)
    \/ \E p \in Positions : COnNewProgress(p)
    \/ \E tl \in ReloadLists(c_timings) : CReload(tl)

-----------------------------------------------------------------------------
(* Player state.                                                           *)

PlaybackStatus == {"Playing", "Paused", "Stopped"}

Progress(status, position, instant, metadata) ==
    [playback_status |-> status,
     position_snapshot |-> [position |-> position, instant |-> instant],
     metadata |-> metadata]

\* PlayerState::current_position, with instant.elapsed() = t - instant.
current_position(p, t) ==
    IF p.playback_status = "Playing"
    THEN p.position_snapshot.position + (t - p.position_snapshot.instant)
    ELSE p.position_snapshot.position

-----------------------------------------------------------------------------
(* Lyrics files.  A parsed file (lrc::LrcFile) is a sequence of timed text *)
(* lines; a line is its text and its TimedLocations.                       *)

TimedLocation(t, from, to) ==
    [time |-> t, line_char_from_index |-> from, line_char_to_index |-> to]

LrcFiles ==
    [f1 |-> \* "[00:00.00]" / "[00:00.01]abc" / "[00:00.03]def"
       << [text |-> "", timings |-> <<TimedLocation(0, 0, 0)>>],
          [text |-> "abc", timings |-> <<TimedLocation(10, 0, 3)>>],
          [text |-> "def", timings |-> <<TimedLocation(30, 0, 3)>>] >>,
     f2 |-> \* "[offset:-5]" / "[00:00.01]gh" / "[00:00.03]ij"
       << [text |-> "gh", timings |-> <<TimedLocation(5, 0, 2)>>],
          [text |-> "ij", timings |-> <<TimedLocation(25, 0, 2)>>] >>,
     f3 |-> \* a file without timed lines
       << >> ]

\* The timings of the first i lines, in file order.
RECURSIVE LinesTimings(_, _)
LinesTimings(timed_texts_lines, i) ==
    IF i = 0 THEN <<>>
    ELSE LinesTimings(timed_texts_lines, i - 1) \o
         [k \in 1..Len(timed_texts_lines[i].timings) |->
            LET timing == timed_texts_lines[i].timings[k]
            IN  LyricsTiming(timing.time, i - 1, timing.line_char_from_index,
                             timing.line_char_to_index)]

\* Lyrics::new of main.rs.
Lyrics_new(lrc_file) ==
    [lines |-> [i \in 1..Len(lrc_file) |-> lrc_file[i].text],
     timings |-> LinesTimings(lrc_file, Len(lrc_file))]

\* Lyrics::new of lrc.rs: the same, after a first mark at time zero when the
\* file has timed lines.
lrc_Lyrics_new(lrc_file) ==
    [lines |-> [i \in 1..Len(lrc_file) |-> lrc_file[i].text],
     timings |-> (IF lrc_file # <<>> THEN <<LyricsTiming(0, 0, 0, 0)>>
                  ELSE <<>>)
                 \o LinesTimings(lrc_file, Len(lrc_file))]

Songs == {"a"}
Paths == Songs \cup {"d"}
Contents == {"missing", "bad"} \cup DOMAIN LrcFiles

\* LrcManager::new: None when the file cannot be parsed.
LrcManager_new(filepath) ==
    IF files[filepath] \in {"missing", "bad"}
    THEN None
    ELSE Some([lyrics |-> Lyrics_new(LrcFiles[files[filepath]]),
               rx |-> <<>>,
               lrc_filepath |-> filepath])

\* LrcManager::new_timed_text_state
new_timed_text_state(l, p, t) ==
    LrcTimedTextState_new(l.lyrics.timings, current_position(p, t))

\* Mutant: a cursor that exists is kept when the model has as many marks
\* as the cursor has seen.
NewState_stale(l, p, t) ==
    IF l.some /\ p.some
    THEN IF lrc_state.some /\ lrc_state.v.iter <= Len(l.v.lyrics.timings)
         THEN lrc_state
         ELSE Some(new_timed_text_state(l.v, p.v, t))
    ELSE None

\* lrc.as_ref().and_then(|l| progress.as_ref().map(|p| l.new_timed_text_state(&p)))
NewState(l, p, t) ==
    IF l.some /\ p.some THEN Some(new_timed_text_state(l.v, p.v, t)) ELSE None

\* get_lrc_filepath: the song's path with the extension lrc, when it is a file.
get_lrc_filepath(p) ==
    IF p.metadata.some /\ files[p.metadata.v] # "missing"
    THEN Some(p.metadata.v)
    ELSE None

OrElse(a, b) == IF a.some THEN a ELSE b

\* Mutant: without a model the lines of the cache are kept.
LinesOf_kept(l) ==
    IF l.some THEN Some(l.v.lyrics.lines) ELSE active_lyrics_lines

\* lrc.as_ref().map(|l| l.lyrics.lines.clone())
LinesOf(l) == IF l.some THEN Some(l.v.lyrics.lines) ELSE None

-----------------------------------------------------------------------------
(* Reading a lyrics file (lrc.rs).  A line of the file is the character    *)
(* it starts with (head: "" for an empty line) and, for a line starting    *)
(* with "[", its parts "tag]text" in order.  A tag is a time mm:ss.cc, an   *)
(* offset in ms, another tag, or one that parse_tag rejects.               *)

TimeTag(min, sec, centi) ==
    [kind |-> "Time", min |-> min, sec |-> sec, centi |-> centi]
OffsetTag(v) == [kind |-> "Offset", v |-> v]
UnknownTag == [kind |-> "Unknown"]
BadTag == [kind |-> "Bad"]

Part(tag, text) == [tag |-> tag, text |-> text]
Line(head, parts) == [head |-> head, parts |-> parts]

\* duration_from_time_string, in ms.
duration_from_time_string(tag) ==
    ((((tag.min * 60) + tag.sec) * 100) + tag.centi) * 10

\* The for loop of parse_lrc_line over the parts from the i-th on.
RECURSIVE ParseParts(_, _, _, _, _)
ParseParts(parts, i, current_text_index_in_line, timings, text) ==
    IF i > Len(parts)
    THEN [kind |-> "TimedText", text |-> text, timings |-> timings, v |-> 0]
    ELSE LET part == parts[i]
             text_len == Len(part.text)
         IN  IF part.tag.kind = "Bad"
             THEN [kind |-> "Err", text |-> "", timings |-> <<>>, v |-> 0]
             ELSE IF part.tag.kind = "Time"
             THEN ParseParts(parts, i + 1,
                    current_text_index_in_line + text_len,
                    Append(timings,
                           TimedLocation(duration_from_time_string(part.tag),
                               current_text_index_in_line,
                               current_text_index_in_line + text_len)),
                    text \o part.text)
             ELSE IF part.tag.kind = "Offset"
             THEN [kind |-> "Offset", text |-> "", timings |-> <<>>,
                   v |-> part.tag.v]
             ELSE [kind |-> "Unknown", text |-> "", timings |-> <<>>, v |-> 0]

parse_lrc_line(line) ==
    IF line.head = ""
    THEN [kind |-> "Empty", text |-> "", timings |-> <<>>, v |-> 0]
    ELSE IF line.head = "["
    THEN ParseParts(line.parts, 1, 0, <<>>, "")
    ELSE [kind |-> "Err", text |-> "", timings |-> <<>>, v |-> 0]

\* The for loop of parse_lrc_file from the i-th line on.  The conversion of
\* prev_time_ms + offset_ms to u64 is unwrapped: it panics when negative.
RECURSIVE ParseLines(_, _, _, _)
ParseLines(text_lines, i, offset_ms, timed_texts_lines) ==
    IF i > Len(text_lines)
    THEN [result |-> "Ok", timed_texts_lines |-> timed_texts_lines]
    ELSE LET l == parse_lrc_line(text_lines[i])
         IN  IF l.kind = "Err"
             THEN [result |-> "Err", timed_texts_lines |-> <<>>]
             ELSE IF l.kind = "TimedText"
             THEN IF offset_ms # 0
                     /\ \E k \in 1..Len(l.timings) :
                           l.timings[k].time + offset_ms < 0
                  THEN [result |-> "panic", timed_texts_lines |-> <<>>]
                  ELSE ParseLines(text_lines, i + 1, offset_ms,
                         Append(timed_texts_lines,
                            [text |-> l.text,
                             timings |->
                               [k \in 1..Len(l.timings) |->
                                  [l.timings[k] EXCEPT !.time =
                                      IF offset_ms # 0 THEN @ + offset_ms
                                      ELSE @]]]))
             ELSE IF l.kind = "Offset"
             THEN ParseLines(text_lines, i + 1, l.v, timed_texts_lines)
             ELSE ParseLines(text_lines, i + 1, offset_ms, timed_texts_lines)

parse_lrc_file(text_lines) == ParseLines(text_lines, 1, 0, <<>>)

MaxLines == 3
LineAlphabet ==
    { Line("", <<>>),
      Line("[", <<Part(OffsetTag(-15), "")>>),
      Line("[", <<Part(OffsetTag(5), "")>>),
      Line("[", <<Part(TimeTag(0, 0, 0), "")>>),
      Line("[", <<Part(TimeTag(0, 0, 1), "ab")>>),
      Line("[", <<Part(TimeTag(0, 0, 2), "cd")>>),
      Line("[", <<Part(TimeTag(0, 0, 1), "e"), Part(TimeTag(0, 0, 2), "f")>>),
      Line("[", <<Part(UnknownTag, "x")>>),
      Line("[", <<Part(BadTag, "")>>),
      Line("x", <<>>) }
TextFiles == UNION {[1..n -> LineAlphabet] : n \in 0..MaxLines}

NoFile == [result |-> "none", timed_texts_lines |-> <<>>]
NoLyrics == [lines |-> <<>>, timings |-> <<>>]

ParseInit ==
    /\ l_lines \in TextFiles
    /\ l_file = NoFile
    /\ l_lyrics = NoLyrics
    /\ l_op = "none"

\* lrc::parse_lrc_file(&lrc_filepath)
LParse ==
    /\ l_op = "none"
    /\ l_file' = parse_lrc_file(l_lines)
    /\ l_op' = "parsed"
    /\ UNCHANGED <<l_lines, l_lyrics, cvars, lvars, tvars>>

\* Lyrics::new(lrc_file) of main.rs, as LrcManager::new calls it.
LNewMain ==
    /\ l_op = "parsed"
    /\ l_file.result = "Ok"
    /\ l_lyrics' = Lyrics_new(l_file.timed_texts_lines)
    /\ l_op' = "main"
    /\ UNCHANGED <<l_lines, l_file, cvars, lvars, tvars>>

\* Lyrics::new(lrc_file) of lrc.rs.
LNewLrc ==
    /\ l_op = "parsed"
    /\ l_file.result = "Ok"
    /\ l_lyrics' = lrc_Lyrics_new(l_file.timed_texts_lines)
    /\ l_op' = "lrc"
    /\ UNCHANGED <<l_lines, l_file, cvars, lvars, tvars>>

NextLyrics == LParse \/ LNewMain \/ LNewLrc

-----------------------------------------------------------------------------
(* The loop of run() and what surrounds it.                                *)

MaxNow == 16
MaxQueue == 2
MaxEvents == 2
BusWindow == 2
TickSteps == {8}
PlayerPositions == {0, 12}

SeekedEvent(position) == [kind |-> "Seeked", position |-> position]
PlaybackStatusChange(status) ==
    [kind |-> "PlaybackStatusChange", status |-> status]
MetadataChange(metadata) == [kind |-> "MetadataChange", metadata |-> metadata]
PlayerShutDown == [kind |-> "PlayerShutDown"]
PlayerStarted == [kind |-> "PlayerStarted"]

MetadataValues == {None} \cup {Some(m) : m \in Songs}

\* What the player announces while it runs.
PlayerEvents ==
    {SeekedEvent(p) : p \in PlayerPositions}
    \cup {PlaybackStatusChange(st) : st \in PlaybackStatus}
    \cup {MetadataChange(m) : m \in MetadataValues}

TimedEvent(instant, event) == [instant |-> instant, event |-> event]

NoEvent == TimedEvent(0, [kind |-> "None"])
NoQuery == [asked |-> FALSE, ok |-> FALSE, position |-> 0]
QueryErr == [asked |-> TRUE, ok |-> FALSE, position |-> 0]
QueryOk(position) == [asked |-> TRUE, ok |-> TRUE, position |-> position]

Step(kind, event, query, segs, lyrics_changed) ==
    [kind |-> kind, event |-> event, query |-> query, segs |-> segs,
     lyrics_changed |-> lyrics_changed,
     \* whether should_recreate took an event of the file watcher
     polled |-> FALSE,
     \* the player state the step started from, for the steps of the match
     before |-> IF kind = "event" THEN progress ELSE None,
     \* the last event handled while `init` was set, that is between a
     \* PlayerStarted and the query it asks for; kept until the next batch
     overtaken |-> IF kind = "event" THEN (IF init THEN event ELSE NoEvent)
                   ELSE IF kind \in {"tail", "top"} THEN step.overtaken
                   ELSE NoEvent]

\* The last BusWindow payloads of b followed by segs.
Sent(b, segs) ==
    LET all == b \o segs
    IN  IF Len(all) <= BusWindow THEN all
        ELSE SubSeq(all, Len(all) - BusWindow + 1, Len(all))

\* query_player_position: Err, or the position the player reports.
PositionResults ==
    IF player = "up"
    THEN {QueryErr} \cup {QueryOk(p) : p \in PlayerPositions}
    ELSE {QueryErr}

\* parse_player_state: the metadata of a stopped player is None.
PlayerStates(t) ==
    {Progress(st, p, t, m) :
        st \in PlaybackStatus, p \in PlayerPositions, m \in MetadataValues}
    \ {Progress("Stopped", p, t, Some(m)) : p \in PlayerPositions, m \in Songs}

\* query_progress: Err, or the state the player reports, taken now.
ProgressResults ==
    IF player = "up" THEN {None} \cup {Some(p) : p \in PlayerStates(now)}
    ELSE {None}

\* player::subscribe: the unique owner of the player's bus name, if any.
subscribe == IF player = "up" THEN Some("owner") ELSE None

LoopInit ==
    /\ now = 0
    /\ player \in {"up", "down"}
    /\ lrc_filepath \in {None, Some("d")}
    /\ files = [p \in Paths |-> IF p = "a" THEN "f1" ELSE "f2"]
    /\ receiver = <<>>
    /\ timed_events = <<>>
    /\ received_events = FALSE
    /\ progress = None
    /\ player_owner_name = subscribe
    /\ init = player_owner_name.some
    /\ pc = IF init THEN "top" ELSE "read"
    /\ lrc = None
    /\ lrc_state = None
    /\ current_timing = None
    /\ active_lyrics_lines = None
    /\ n_sent = 0
    /\ bus = <<>>
    /\ step = Step("start", NoEvent, NoQuery, <<>>, 0)

\* ---- what happens around the loop while it waits in c.process ----

\* Time goes by while read_events waits in c.process(REFRESH_EVERY).
TimePasses ==
    /\ pc = "read"
    /\ \E d \in TickSteps :
        /\ now + d <= MaxNow
        /\ now' = now + d
    /\ UNCHANGED <<pc, receiver, timed_events, received_events, progress,
                   player_owner_name, init, lrc, lrc_state, files, player,
                   current_timing, active_lyrics_lines, lrc_filepath, n_sent,
                   bus, step, cvars, pvars, tvars>>

Send(event) ==
    /\ Len(receiver) < MaxQueue
    /\ n_sent < MaxEvents
    /\ receiver' = Append(receiver, TimedEvent(now, event))
    /\ n_sent' = n_sent + 1

\* The player announces a seek or a changed property.
PlayerSends ==
    /\ pc = "read"
    /\ player = "up"
    /\ \E e \in PlayerEvents : Send(e)
    /\ UNCHANGED <<now, pc, timed_events, received_events, progress,
                   player_owner_name, init, lrc, lrc_state, files, player,
                   current_timing, active_lyrics_lines, lrc_filepath, bus,
                   step, cvars, pvars, tvars>>

\* The player's bus name gets an owner.
PlayerStarts ==
    /\ pc = "read"
    /\ player = "down"
    /\ player' = "up"
    /\ Send(PlayerStarted)
    /\ UNCHANGED <<now, pc, timed_events, received_events, progress,
                   player_owner_name, init, lrc, lrc_state, files,
                   current_timing, active_lyrics_lines, lrc_filepath, bus,
                   step, cvars, pvars, tvars>>

\* The player's bus name loses its owner.
PlayerExits ==
    /\ pc = "read"
    /\ player = "up"
    /\ player' = "down"
    /\ Send(PlayerShutDown)
    /\ UNCHANGED <<now, pc, timed_events, received_events, progress,
                   player_owner_name, init, lrc, lrc_state, files,
                   current_timing, active_lyrics_lines, lrc_filepath, bus,
                   step, cvars, pvars, tvars>>

\* A lyrics file is written, created or removed; the watcher of the loaded
\* LrcManager reports it on its channel.
FileChanges ==
    /\ pc = "read"
    /\ n_sent < MaxEvents
    /\ \E path \in Paths, content \in Contents :
        /\ files[path] # content
        /\ files' = [files EXCEPT ![path] = content]
        /\ lrc.some => Len(lrc.v.rx) < MaxQueue
        /\ lrc' = IF lrc.some
                  THEN Some([lrc.v EXCEPT !.rx = Append(@,
                          [kind |-> IF content = "missing" THEN "Remove"
                                    ELSE IF files[path] = "missing"
                                         THEN "Create" ELSE "Write",
                           path |-> path])])
                  ELSE lrc
    /\ n_sent' = n_sent + 1
    /\ UNCHANGED <<now, pc, receiver, timed_events, received_events, progress,
                   player_owner_name, init, lrc_state, player, current_timing,
                   active_lyrics_lines, lrc_filepath, bus, step, cvars, pvars,
                   tvars>>

\* ---- the arms of the event match (main.rs:364-445) ----

\* Mutant: the seek keeps the instant of the old snapshot.
OnSeeked_old_instant(p, position, instant) ==
    IF p.some
    THEN Some([p.v EXCEPT !.position_snapshot.position = position])
    ELSE p

\* Event::Seeked { position }
OnSeeked(p, position, instant) ==
    IF p.some
    THEN Some([p.v EXCEPT !.position_snapshot =
                    [position |-> position, instant |-> instant]])
    ELSE p

\* Mutant: resuming without a state makes one up.
OnPlaying_creates(p, instant) ==
    IF p.some
    THEN Some(Progress("Playing", p.v.position_snapshot.position, instant,
                       p.v.metadata))
    ELSE Some(Progress("Playing", 0, instant, None))

\* Mutant: resuming keeps the instant of the old snapshot.
OnPlaying_old_instant(p, instant) ==
    IF p.some
    THEN Some(Progress("Playing", p.v.position_snapshot.position,
                       p.v.position_snapshot.instant, p.v.metadata))
    ELSE p

\* Event::PlaybackStatusChange(Playing)
OnPlaying(p, instant) ==
    IF p.some
    THEN Some(Progress("Playing", p.v.position_snapshot.position, instant,
                       p.v.metadata))
    ELSE p

\* Mutant: stopping keeps the metadata and the position of the state.
OnStopped_keep(p, instant) ==
    IF p.some
    THEN Some(Progress("Stopped", p.v.position_snapshot.position, instant,
                       p.v.metadata))
    ELSE Some(Progress("Stopped", 0, instant, None))

\* Event::PlaybackStatusChange(Stopped)
OnStopped(p, instant) == Some(Progress("Stopped", 0, instant, None))

\* Mutant: a failed position query falls back to position zero.
OnPaused_default(p, owner, q, t) ==
    IF ~p.some THEN [progress |-> p, panic |-> FALSE]
    ELSE [progress |->
            Some(Progress("Paused",
                          IF owner.some /\ q.ok THEN q.position ELSE 0, t,
                          p.v.metadata)),
          panic |-> FALSE]

\* Event::PlaybackStatusChange(Paused): q is what query_player_position
\* returns, t is Instant::now().  player_owner_name.clone().unwrap() and
\* query_player_position(..).unwrap() panic on None and on Err.
OnPaused(p, owner, q, t) ==
    IF ~p.some THEN [progress |-> p, panic |-> FALSE]
    ELSE IF ~owner.some \/ ~q.ok THEN [progress |-> p, panic |-> TRUE]
    ELSE [progress |-> Some(Progress("Paused", q.position, t, p.v.metadata)),
          panic |-> FALSE]

\* Mutant: new metadata starts the track over, at position zero.
OnMetadataChange_rewinds(p, metadata) ==
    IF p.some
    THEN Some([p.v EXCEPT !.metadata = metadata,
                          !.position_snapshot.position = 0])
    ELSE p

\* Event::MetadataChange, the state part.
OnMetadataChange(p, metadata) ==
    IF p.some THEN Some([p.v EXCEPT !.metadata = metadata]) ELSE p

\* The timing MetadataChange announces when a lyrics path was found.
ZeroTiming == LyricsTiming(0, 0, 0, 0)

\* ---- the steps of the loop ----

\* The loop leaves the variables of its surroundings alone.
LoopFrame == UNCHANGED <<now, receiver, files, player, lrc_filepath, n_sent,
                         cvars, pvars, tvars>>

\* `if init { ... }` at the top of the loop (main.rs:335-355).
Top ==
    /\ pc = "top"
    /\ init' = FALSE
    /\ player_owner_name' = subscribe
    /\ \E r \in ProgressResults :
        IF ~subscribe.some \/ ~r.some
        THEN \* unwrap() of None, or of the Err of query_progress
             /\ pc' = "panicked"
             /\ step' = Step("top", NoEvent, NoQuery, <<>>, 0)
             /\ UNCHANGED <<progress, lrc, lrc_state, active_lyrics_lines>>
        ELSE LET filepath == OrElse(get_lrc_filepath(r.v), lrc_filepath)
                 new_lrc == IF filepath.some THEN LrcManager_new(filepath.v)
                            ELSE lrc
                 new_state == IF filepath.some
                              THEN NewState(new_lrc, r, now)
                              ELSE lrc_state
             IN  /\ progress' = r
                 /\ lrc' = new_lrc
                 /\ lrc_state' = new_state
                 /\ active_lyrics_lines' = LinesOf(new_lrc)
                 /\ step' = Step("top", NoEvent, NoQuery, <<>>, 1)
                 /\ pc' = "read"
    /\ UNCHANGED <<timed_events, received_events, current_timing, bus>>
    /\ LoopFrame

\* read_events: every event waiting in the channel, in order.
ReadEvents ==
    /\ pc = "read"
    /\ timed_events' = receiver
    /\ received_events' = (receiver # <<>>)
    /\ receiver' = <<>>
    /\ pc' = "events"
    /\ step' = Step("read", NoEvent, NoQuery, <<>>, 0)
    /\ UNCHANGED <<now, progress, player_owner_name, init, lrc, lrc_state,
                   files, player, current_timing, active_lyrics_lines,
                   lrc_filepath, n_sent, bus, cvars, pvars, tvars>>

\* The next event of the batch is `event`.
Handling(kind) ==
    /\ pc = "events"
    /\ timed_events # <<>>
    /\ Head(timed_events).event.kind = kind

\* An arm that only changes the player state.
StateArm(new_progress) ==
    /\ progress' = new_progress
    /\ timed_events' = Tail(timed_events)
    /\ step' = Step("event", Head(timed_events), NoQuery, <<>>, 0)
    /\ UNCHANGED <<pc, received_events, player_owner_name, init, lrc,
                   lrc_state, current_timing, active_lyrics_lines, bus>>
    /\ LoopFrame

HandleSeeked ==
    /\ Handling("Seeked")
    /\ LET e == Head(timed_events)
       IN  StateArm(OnSeeked(progress, e.event.position, e.instant))

HandlePlaying ==
    /\ Handling("PlaybackStatusChange")
    /\ Head(timed_events).event.status = "Playing"
    /\ StateArm(OnPlaying(progress, Head(timed_events).instant))

HandleStopped ==
    /\ Handling("PlaybackStatusChange")
    /\ Head(timed_events).event.status = "Stopped"
    /\ StateArm(OnStopped(progress, Head(timed_events).instant))

HandlePaused ==
    /\ Handling("PlaybackStatusChange")
    /\ Head(timed_events).event.status = "Paused"
    /\ \E q \in PositionResults :
        LET r == OnPaused(progress, player_owner_name, q, now)
        IN  /\ progress' = r.progress
            /\ pc' = IF r.panic THEN "panicked" ELSE pc
            /\ step' = Step("event", Head(timed_events),
                            IF progress.some /\ player_owner_name.some
                            THEN q ELSE NoQuery, <<>>, 0)
    /\ timed_events' = Tail(timed_events)
    /\ UNCHANGED <<received_events, player_owner_name, init, lrc, lrc_state,
                   current_timing, active_lyrics_lines, bus>>
    /\ LoopFrame

HandleMetadataChange ==
    /\ Handling("MetadataChange")
    /\ LET e == Head(timed_events)
           new_progress == OnMetadataChange(progress, e.event.metadata)
           filepath == OrElse(IF new_progress.some
                              THEN get_lrc_filepath(new_progress.v)
                              ELSE None,
                              lrc_filepath)
           new_lrc == IF filepath.some THEN LrcManager_new(filepath.v)
                      ELSE None
           timing == IF filepath.some THEN Some(ZeroTiming) ELSE None
       IN  /\ progress' = new_progress
           /\ lrc' = new_lrc
           /\ lrc_state' = NewState(new_lrc, new_progress, now)
           \* on_lyrics_changed
           /\ active_lyrics_lines' = LinesOf(new_lrc)
           \* on_active_lyrics_segment_changed
           /\ current_timing' = timing
           /\ bus' = Sent(bus, <<timing>>)
           /\ step' = Step("event", e, NoQuery, <<timing>>, 1)
    /\ timed_events' = Tail(timed_events)
    /\ UNCHANGED <<pc, received_events, player_owner_name, init>>
    /\ LoopFrame

HandlePlayerShutDown ==
    /\ Handling("PlayerShutDown")
    /\ progress' = None
    /\ player_owner_name' = None
    /\ timed_events' = Tail(timed_events)
    /\ step' = Step("event", Head(timed_events), NoQuery, <<>>, 0)
    /\ UNCHANGED <<pc, received_events, init, lrc, lrc_state, current_timing,
                   active_lyrics_lines, bus>>
    /\ LoopFrame

HandlePlayerStarted ==
    /\ Handling("PlayerStarted")
    /\ init' = TRUE
    /\ timed_events' = Tail(timed_events)
    /\ step' = Step("event", Head(timed_events), NoQuery, <<>>, 0)
    /\ UNCHANGED <<pc, received_events, progress, player_owner_name, lrc,
                   lrc_state, current_timing, active_lyrics_lines, bus>>
    /\ LoopFrame

\* Mutant: the idle tick advances the cursor whatever the playback status.
IsPlaying_any(p) == p.some

\* progress.as_ref().map(|p| p.playback_status) == Some(PlaybackStatus::Playing)
IsPlaying(p) == p.some /\ p.v.playback_status = "Playing"

\* The end of an iteration: the lyrics reload (main.rs:450-458) and the
\* notification of the active segment (main.rs:460-480).
Tail_ ==
    /\ pc = "events"
    /\ timed_events = <<>>
    /\ LET \* LrcManager::should_recreate takes one watcher event
           polled == lrc.some /\ lrc.v.rx # <<>>
           lrc1 == IF polled THEN Some([lrc.v EXCEPT !.rx = Tail(@)]) ELSE lrc
           should_recreate ==
               /\ polled
               /\ Head(lrc.v.rx).kind \in {"Create", "Write"}
               /\ Head(lrc.v.rx).path = lrc.v.lrc_filepath
           \* LrcManager::maybe_recreate
           new_lrc == IF should_recreate
                      THEN LrcManager_new(lrc.v.lrc_filepath) ELSE None
           lrc2 == IF new_lrc.some THEN new_lrc ELSE lrc1
           state2 == IF new_lrc.some THEN NewState(new_lrc, progress, now)
                     ELSE lrc_state
           lines2 == IF new_lrc.some THEN LinesOf(new_lrc)
                     ELSE active_lyrics_lines
           playing == IsPlaying(progress)
           advanced == IF ~received_events /\ playing /\ state2.some
                       THEN on_new_progress(state2.v, lrc2.v.lyrics.timings,
                                            current_position(progress.v, now))
                       ELSE [state |-> None, ret |-> None, panic |-> FALSE]
           state3 == IF received_events THEN NewState(lrc2, progress, now)
                     ELSE IF playing /\ state2.some THEN Some(advanced.state)
                     ELSE state2
           segs == IF received_events
                   THEN IF state3.some /\ state3.v.current # 0
                        THEN <<Some(lrc2.v.lyrics.timings[state3.v.current])>>
                        ELSE <<>>
                   ELSE IF advanced.ret.some
                        THEN <<Some(advanced.ret.v[2])>>
                        ELSE <<>>
       IN  /\ lrc' = lrc2
           /\ lrc_state' = state3
           /\ active_lyrics_lines' = lines2
           /\ current_timing' = IF segs # <<>> THEN segs[1] ELSE current_timing
           /\ bus' = Sent(bus, segs)
           /\ step' = [Step("tail", NoEvent, NoQuery, segs,
                            IF new_lrc.some THEN 1 ELSE 0)
                       EXCEPT !.polled = polled]
           /\ pc' = IF advanced.panic THEN "panicked"
                    ELSE IF init THEN "top" ELSE "read"
    /\ UNCHANGED <<timed_events, received_events, progress, player_owner_name,
                   init>>
    /\ LoopFrame

Next ==
    \/ TimePasses
    \/ PlayerSends
    \/ PlayerStarts
    \/ PlayerExits
    \/ FileChanges
    \/ Top
    \/ ReadEvents
    \/ HandleSeeked
    \/ HandlePlaying
    \/ HandleStopped
    \/ HandlePaused
    \/ HandleMetadataChange
    \/ HandlePlayerShutDown
    \/ HandlePlayerStarted
    \/ Tail_

-----------------------------------------------------------------------------
(* The listener thread of player.rs (PlayerNotifications::run_sync), the   *)
(* channel its bus callbacks fill, the channel it fills, and the loop that *)
(* drains the latter.  Positions on the bus are integers of microseconds.  *)

MaxNotified == 2
MaxInstant == 2

Ok(x) == [ok |-> TRUE, v |-> x]
Err == [ok |-> FALSE]

\* Values on the bus: a string, a 64-bit integer, a dictionary of which only
\* the xesam:url entry is kept (None when the dictionary has none).
Str(s) == [type |-> "s", s |-> s]
I64(x) == [type |-> "x", x |-> x]
Dict(url) == [type |-> "a{sv}", url |-> url]

player_bus == "org.mpris.MediaPlayer2.p"
OtherBus == "org.mpris.MediaPlayer2.q"
UniqueName == ":1.7"

PlayerInterface == "org.mpris.MediaPlayer2.Player"

\* Url::parse(uri), then to_file_path(); a string that is no URL is taken as
\* the path itself.
FilePathOf(uri) ==
    CASE uri = "file:///m/a.mp3" -> Ok("/m/a.mp3")
      [] uri = "http://h/a.mp3" -> Err
      [] OTHER -> Ok(uri)

parse_player_metadata(metadata_variant) ==
    IF metadata_variant.type # "a{sv}" THEN Err
    ELSE IF ~metadata_variant.url.some THEN Ok(None)
    ELSE IF metadata_variant.url.v.type # "s" THEN Err
    ELSE LET file_path == FilePathOf(metadata_variant.url.v.s)
         IN  IF file_path.ok THEN Ok(Some(file_path.v)) ELSE Err

parse_player_position(arg) ==
    IF arg.type # "x" THEN Err
    ELSE IF arg.x < 0 THEN Err
    ELSE Ok(arg.x)

PlayerStartedBy(name) ==
    [kind |-> "PlayerStarted", player_owner_name |-> name]
UnknownEvent(key, value) == [kind |-> "Unknown", key |-> key, value |-> value]

\* What a handler returns: the events it gave to f, and whether it panicked.
Emitted(events) == [events |-> events, panic |-> FALSE]
Panicked(events) == [events |-> events, panic |-> TRUE]

\* react_on_changed_seek_value: unwrap() of a negative position panics.
react_on_changed_seek_value(position_us) ==
    IF position_us < 0 THEN Panicked(<<>>)
    ELSE Emitted(<<SeekedEvent(position_us)>>)

\* Mutant: Volume falls through to the last arm.
ReactOnProperty_volume(k, v) ==
    CASE k = "PlaybackStatus" ->
            IF v.type = "s" /\ v.s \in PlaybackStatus
            THEN Emitted(<<PlaybackStatusChange(v.s)>>)
            ELSE Panicked(<<>>)
      [] k = "Metadata" ->
            LET metadata == parse_player_metadata(v)
            IN  IF metadata.ok THEN Emitted(<<MetadataChange(metadata.v)>>)
                ELSE Panicked(<<>>)
      [] k = "Position" ->
            IF v.type = "x" /\ v.x >= 0
            THEN Emitted(<<SeekedEvent(v.x)>>)
            ELSE Panicked(<<>>)
      [] OTHER -> Emitted(<<UnknownEvent(k, v)>>)

\* One round of the `for (k, v) in changed_properties` loop.
ReactOnProperty(k, v) ==
    CASE k = "PlaybackStatus" ->
            IF v.type = "s" /\ v.s \in PlaybackStatus
            THEN Emitted(<<PlaybackStatusChange(v.s)>>)
            ELSE Panicked(<<>>)
      [] k = "Metadata" ->
            LET metadata == parse_player_metadata(v)
            IN  IF metadata.ok THEN Emitted(<<MetadataChange(metadata.v)>>)
                ELSE Panicked(<<>>)
      [] k = "Position" ->
            IF v.type = "x" /\ v.x >= 0
            THEN Emitted(<<SeekedEvent(v.x)>>)
            ELSE Panicked(<<>>)
      [] k = "Volume" -> Emitted(<<>>)
      [] OTHER -> Emitted(<<UnknownEvent(k, v)>>)

\* react_on_changed_properties over the entries in the order the map
\* yields them; a panic ends it after the events already given to f.
RECURSIVE ReactOnProperties(_, _, _)
ReactOnProperties(entries, i, events) ==
    IF i > Len(entries) THEN Emitted(events)
    ELSE LET r == ReactOnProperty(entries[i].key, entries[i].value)
         IN  IF r.panic THEN Panicked(events)
             ELSE ReactOnProperties(entries, i + 1, events \o r.events)

react_on_changed_properties(entries) == ReactOnProperties(entries, 1, <<>>)

\* The orders in which a HashMap may yield its entries.
Orders(S) ==
    {s \in [1..Cardinality(S) -> S] :
        \A i, j \in 1..Cardinality(S) : i # j => s[i] # s[j]}

\* arg::ReadAll for DBusNameOwnerChanged: the three strings of the signal,
\* in the order they are on the wire.
ReadNameOwnerChanged(args) ==
    [name |-> args[1], new_owner |-> args[2], old_owner |-> args[3]]

\* Mutant: the two branches mixed up.
react_on_dbus_name_owned_changed_swapped(e, proxy) ==
    IF e.name = player_bus
    THEN IF e.new_owner = ""
         THEN [proxy |-> FALSE, subscribe |-> FALSE,
               r |-> Emitted(<<PlayerShutDown>>)]
         ELSE IF e.old_owner = ""
              THEN [proxy |-> TRUE, subscribe |-> TRUE,
                    r |-> Emitted(<<PlayerStartedBy(e.name)>>)]
              ELSE [proxy |-> proxy, subscribe |-> FALSE, r |-> Emitted(<<>>)]
    ELSE [proxy |-> proxy, subscribe |-> FALSE, r |-> Emitted(<<>>)]

react_on_dbus_name_owned_changed(e, proxy) ==
    IF e.name = player_bus
    THEN IF e.old_owner = ""
         THEN [proxy |-> FALSE, subscribe |-> FALSE,
               r |-> Emitted(<<PlayerShutDown>>)]
         ELSE IF e.new_owner = ""
              THEN [proxy |-> TRUE, subscribe |-> TRUE,
                    r |-> Emitted(<<PlayerStartedBy(e.name)>>)]
              ELSE [proxy |-> proxy, subscribe |-> FALSE, r |-> Emitted(<<>>)]
    ELSE [proxy |-> proxy, subscribe |-> FALSE, r |-> Emitted(<<>>)]

\* ---- what the bus delivers ----

PropertiesChanged(interface_name, changed_properties) ==
    [signal |-> "PropertiesChanged", interface_name |-> interface_name,
     changed_properties |-> changed_properties]
SeekedSignal(position_us) == [signal |-> "Seeked", position_us |-> position_us]
\* org.freedesktop.DBus.NameOwnerChanged(name, old_owner, new_owner)
NameOwnerChanged(name, old_owner, new_owner) ==
    [signal |-> "NameOwnerChanged", args |-> <<name, old_owner, new_owner>>]

Entry(key, value) == [key |-> key, value |-> value]

PlayerSignals ==
    {SeekedSignal(12), SeekedSignal(-1),
     PropertiesChanged(PlayerInterface,
                       {Entry("PlaybackStatus", Str("Playing"))}),
     PropertiesChanged(PlayerInterface, {Entry("Position", I64(-1))}),
     PropertiesChanged(PlayerInterface,
                       {Entry("PlaybackStatus", Str("Paused")),
                        Entry("Position", I64(12))}),
     PropertiesChanged(PlayerInterface,
                       {Entry("Metadata", Dict(Some(Str("file:///m/a.mp3")))),
                        Entry("Volume", I64(1))}),
     PropertiesChanged(PlayerInterface,
                       {Entry("Metadata", Dict(None)),
                        Entry("Rate", I64(1))}),
     PropertiesChanged(PlayerInterface,
                       {Entry("Metadata", Dict(Some(Str("/m/b.mp3"))))}),
     PropertiesChanged("org.mpris.MediaPlayer2",
                       {Entry("Fullscreen", I64(1))})}

OwnerSignals ==
    {NameOwnerChanged(player_bus, "", UniqueName),
     NameOwnerChanged(player_bus, UniqueName, ""),
     NameOwnerChanged(OtherBus, "", ":1.8"),
     NameOwnerChanged(OtherBus, ":1.8", "")}

\* TimedPlayerDbusEvent, with the number of the notification it was made of
\* (0 for the one initial_try_connect_to_player makes up).
TimedPlayerDbusEvent(t, event, of) ==
    [instant |-> t, event |-> event, of |-> of]

\* Mutant: the event is stamped when it is forwarded.
Forwarded_now(dbus_event, player_event) ==
    [instant |-> instant_now, event |-> player_event, of |-> dbus_event.of]

\* TimedEvent { instant, event: Event::PlayerEvent(player_event) } as
\* run_sync sends it, with the number of the notification it derives from.
Forwarded(dbus_event, player_event) ==
    [instant |-> dbus_event.instant, event |-> player_event,
     of |-> dbus_event.of]

NoHandled == [of |-> 0, signal |-> "None", events |-> <<>>, panic |-> FALSE]

ListenerIdle ==
    /\ instant_now = 0
    /\ notified = <<>>
    /\ dbus_event_receiver = <<>>
    /\ dbus_proxy_player = [proxy |-> FALSE, subscribed |-> FALSE]
    /\ listener = "start"
    /\ handled = NoHandled
    /\ sender = <<>>
    /\ senders = {"run", "listener"}
    /\ main = "running"
    /\ applied = <<>>

ListenerFrame ==
    UNCHANGED <<cvars, lvars, pvars, qvars, wvars, kvars, fvars>>

\* Time goes by.
Elapse ==
    /\ instant_now < MaxInstant
    /\ instant_now' = instant_now + 1
    /\ UNCHANGED <<notified, dbus_event_receiver, dbus_proxy_player, listener,
                   handled, sender, senders, main, applied>>
    /\ ListenerFrame

\* run_sync up to its loop: initial_try_connect_to_player sends itself a
\* NameOwnerChanged when the player's name has an owner.
ListenerStarts ==
    /\ listener = "start"
    /\ listener' = "running"
    /\ \E owner \in {None, Some(UniqueName)} :
        dbus_event_receiver' =
            IF owner.some
            THEN <<TimedPlayerDbusEvent(instant_now,
                      [signal |-> "NameOwnerChanged",
                       e |-> [name |-> owner.v, new_owner |-> "",
                              old_owner |-> owner.v]], 0)>>
            ELSE <<>>
    /\ UNCHANGED <<instant_now, notified, dbus_proxy_player, handled, sender,
                   senders, main, applied>>
    /\ ListenerFrame

\* A handler of create_dbus_handler, called from connection.process: the
\* notification is stamped and queued.  Signals of the player arrive once
\* subscribe() has asked for them.
Notify ==
    /\ listener = "running"
    /\ Len(notified) < MaxNotified
    /\ \E n \in OwnerSignals \cup
                (IF dbus_proxy_player.subscribed THEN PlayerSignals ELSE {}) :
        /\ notified' = Append(notified,
                              [instant |-> instant_now, signal |-> n])
        /\ dbus_event_receiver' =
             Append(dbus_event_receiver,
                    TimedPlayerDbusEvent(instant_now,
                       IF n.signal = "NameOwnerChanged"
                       THEN [signal |-> "NameOwnerChanged",
                             e |-> ReadNameOwnerChanged(n.args)]
                       ELSE n,
                       Len(notified) + 1))
    /\ UNCHANGED <<instant_now, dbus_proxy_player, listener, handled, sender,
                   senders, main, applied>>
    /\ ListenerFrame

\* on_dbus_event for the event taken from the queue, with the entries of a
\* PropertiesChanged in the order `entries`.
on_dbus_event(dbus_event, proxy, entries) ==
    CASE dbus_event.signal = "PropertiesChanged" ->
            [proxy |-> proxy, subscribe |-> FALSE,
             r |-> IF dbus_event.interface_name = PlayerInterface
                   THEN react_on_changed_properties(entries)
                   ELSE Emitted(<<>>)]
      [] dbus_event.signal = "Seeked" ->
            [proxy |-> proxy, subscribe |-> FALSE,
             r |-> react_on_changed_seek_value(dbus_event.position_us)]
      [] dbus_event.signal = "NameOwnerChanged" ->
            react_on_dbus_name_owned_changed(dbus_event.e, proxy)

\* One round of run_sync's inner loop: an event is taken from the queue and
\* what on_dbus_event makes of it is sent on, each with the instant of the
\* event.  A panic ends the thread, which drops its sending end.
OnDbusEvent ==
    /\ listener = "running"
    /\ dbus_event_receiver # <<>>
    /\ LET dbus_event == Head(dbus_event_receiver)
       IN  \E entries \in IF dbus_event.event.signal = "PropertiesChanged"
                          THEN Orders(dbus_event.event.changed_properties)
                          ELSE {<<>>} :
            LET o == on_dbus_event(dbus_event.event, dbus_proxy_player.proxy,
                                   entries)
                \* send(..).unwrap() panics once the receiver is gone
                gone == main = "returned" /\ o.r.events # <<>>
                events == IF gone THEN <<>> ELSE o.r.events
                panic == o.r.panic \/ gone
            IN  /\ sender' = sender \o
                        [i \in 1..Len(events) |->
                            Forwarded(dbus_event, events[i])]
                /\ dbus_proxy_player' =
                        [proxy |-> o.proxy,
                         subscribed |-> dbus_proxy_player.subscribed
                                        \/ o.subscribe]
                /\ handled' = [of |-> dbus_event.of,
                               signal |-> dbus_event.event.signal,
                               events |-> events, panic |-> panic]
                /\ listener' = IF panic THEN "panicked" ELSE listener
                /\ senders' = IF panic THEN senders \ {"listener"} ELSE senders
    /\ dbus_event_receiver' = Tail(dbus_event_receiver)
    /\ UNCHANGED <<instant_now, notified, main, applied>>
    /\ ListenerFrame

\* connection.process(..)? fails: run_sync returns the error, run_async's
\* unwrap() ends the thread, which drops its sending end.
ProcessFails ==
    /\ listener = "running"
    /\ listener' = "failed"
    /\ senders' = senders \ {"listener"}
    /\ UNCHANGED <<instant_now, notified, dbus_event_receiver,
                   dbus_proxy_player,
                   handled, sender, main, applied>>
    /\ ListenerFrame

\* try_recv() on a channel without senders, once it is empty.
Disconnected == senders = {}

\* One iteration of the loop of run(): read_events drains the channel, the
\* for loop takes the events in order; on Disconnected read_events returns
\* None and run returns.  run keeps its own `sender` until then.
LoopTick ==
    /\ main = "running"
    /\ IF Disconnected
       THEN /\ main' = "returned"
            /\ senders' = senders \ {"run"}
            /\ UNCHANGED applied
       ELSE /\ applied' = applied \o sender
            /\ UNCHANGED <<main, senders>>
    /\ sender' = <<>>
    /\ UNCHANGED <<instant_now, notified, dbus_event_receiver,
                   dbus_proxy_player,
                   listener, handled>>
    /\ ListenerFrame

NextListener ==
    \/ Elapse
    \/ ListenerStarts
    \/ Notify
    \/ OnDbusEvent
    \/ ProcessFails
    \/ LoopTick

-----------------------------------------------------------------------------
(* The full-state query of player.rs: parse_player_state over the          *)
(* properties the player answers GetAll with.                              *)

\* events.rs: PlayerState
PlayerState(playback_status, position, t, metadata) ==
    [playback_status |-> playback_status,
     position_snapshot |-> [position |-> position, instant |-> t],
     metadata |-> metadata]

\* What parse_player_state makes of the properties: Ok(state), Err, or a
\* panic.
StateOk(state) == [result |-> "Ok", v |-> state]
StateErr == [result |-> "Err"]
StatePanic == [result |-> "panic"]

\* Mutant: the metadata is parsed whatever the status.
parse_player_state_any_status(properties, current_instant) ==
    LET status == properties.PlaybackStatus
        position == IF properties.Position.some
                    THEN parse_player_position(properties.Position.v)
                    ELSE Err
        metadata == IF properties.Metadata.some
                    THEN parse_player_metadata(properties.Metadata.v)
                    ELSE Err
    IN  IF ~status.some \/ status.v.type # "s" THEN StateErr
        ELSE IF status.v.s \notin PlaybackStatus THEN StatePanic
        ELSE IF ~position.ok THEN StateErr
        ELSE IF ~metadata.ok THEN StateErr
        ELSE StateOk(PlayerState(status.v.s, position.v, current_instant,
                                 metadata.v))

\* parse_player_state: try_get_value answers Err for a missing key;
\* parse_playback_status panics on a string that is no status.
parse_player_state(properties, current_instant) ==
    LET status == properties.PlaybackStatus
        position == IF properties.Position.some
                    THEN parse_player_position(properties.Position.v)
                    ELSE Err
        metadata == IF status.v.s = "Stopped" THEN Ok(None)
                    ELSE IF properties.Metadata.some
                         THEN parse_player_metadata(properties.Metadata.v)
                         ELSE Err
    IN  IF ~status.some \/ status.v.type # "s" THEN StateErr
        ELSE IF status.v.s \notin PlaybackStatus THEN StatePanic
        ELSE IF ~position.ok THEN StateErr
        ELSE IF ~metadata.ok THEN StateErr
        ELSE StateOk(PlayerState(status.v.s, position.v, current_instant,
                                 metadata.v))

\* The properties a player may answer with; None is a missing key.
StatusProperties ==
    {None, Some(I64(1)), Some(Str("Foo"))}
    \cup {Some(Str(s)) : s \in PlaybackStatus}
PositionProperties ==
    {None, Some(I64(0)), Some(I64(41337000)), Some(I64(-1)), Some(Str("0"))}
MetadataProperties ==
    {None, Some(Str("")), Some(Dict(None)), Some(Dict(Some(I64(1))))}
    \cup {Some(Dict(Some(Str(uri)))) :
            uri \in {"file:///m/a.mp3", "/m/a.mp3", "http://h/a.mp3"}}

QueryIdle ==
    /\ q_properties = [PlaybackStatus |-> None, Position |-> None,
                       Metadata |-> None]
    /\ q_instant = 0
    /\ q_result = StateErr
    /\ q_op = "none"

QueryInit ==
    /\ q_properties \in [PlaybackStatus : StatusProperties,
                         Position : PositionProperties,
                         Metadata : MetadataProperties]
    /\ q_instant \in 0..MaxInstant
    /\ q_result = StateErr
    /\ q_op = "none"

\* query_player_state
QueryPlayerState ==
    /\ q_op = "none"
    /\ q_result' = parse_player_state(q_properties, q_instant)
    /\ q_op' = "parsed"
    /\ UNCHANGED <<q_properties, q_instant, cvars, lvars, pvars, nvars,
                   wvars, kvars, fvars>>

NextQuery == QueryPlayerState

-----------------------------------------------------------------------------
(* The lyrics file manager of lrc_file_manager.rs: LrcManager::run_sync,   *)
(* the watcher it re-scopes and the LyricsChanged events it sends.         *)

MaxRequests == 3

LrcPaths == {"/m/a.lrc", "/m/b.lrc", "/n/c.lrc", "/gone/d.lrc"}

\* Path::parent
Parent(path) ==
    CASE path \in {"/m/a.lrc", "/m/b.lrc"} -> "/m"
      [] path = "/n/c.lrc" -> "/n"
      [] path = "/gone/d.lrc" -> "/gone"

\* The directories there are.
Dirs == {"/m", "/n"}

ChangePath(file_path) == [kind |-> "ChangePath", file_path |-> file_path]
FileChanged(file_path) == [kind |-> "FileChanged", file_path |-> file_path]

\* LyricsEvent::LyricsChanged { lyrics, file_path }
LyricsChanged(lyrics, file_path) ==
    [kind |-> "LyricsChanged", lyrics |-> lyrics, file_path |-> file_path]

\* watcher.unwatch(path): Err when the path is not watched.
Unwatch(watched, path) ==
    IF path \in watched THEN Ok(watched \ {path}) ELSE Err

\* watcher.watch(path, RecursiveMode::Recursive): Err when there is no such
\* directory.
Watch(watched, path) ==
    IF path \in Dirs THEN Ok(watched \cup {path}) ELSE Err

\* Mutant: the directory of the old path stays watched.
Rescope_keeps_old(watched, old, new) ==
    LET unwatched == Ok(watched)
    IN  IF ~unwatched.ok THEN [watched |-> {}, path |-> old, panic |-> TRUE]
        ELSE IF ~new.some
             THEN [watched |-> unwatched.v, path |-> new, panic |-> FALSE]
             ELSE LET w == Watch(unwatched.v, Parent(new.v))
                  IN  IF w.ok
                      THEN [watched |-> w.v, path |-> new, panic |-> FALSE]
                      ELSE [watched |-> {}, path |-> new, panic |-> TRUE]

\* The ChangePath arm of run_sync up to on_file_changed: the directory of
\* the old path is unwatched, the path replaced, the directory of the new
\* path watched.  An unwrap() of an Err panics; the watcher is then dropped
\* with the manager.
Rescope(watched, old, new) ==
    LET unwatched == IF old.some THEN Unwatch(watched, Parent(old.v))
                     ELSE Ok(watched)
    IN  IF ~unwatched.ok THEN [watched |-> {}, path |-> old, panic |-> TRUE]
        ELSE IF ~new.some
             THEN [watched |-> unwatched.v, path |-> new, panic |-> FALSE]
             ELSE LET w == Watch(unwatched.v, Parent(new.v))
                  IN  IF w.ok
                      THEN [watched |-> w.v, path |-> new, panic |-> FALSE]
                      ELSE [watched |-> {}, path |-> new, panic |-> TRUE]

\* on_file_changed: the events it sends, none or one.
on_file_changed(changed_file_path, path, disk) ==
    IF changed_file_path = path
    THEN LET lyrics ==
                IF path.some /\ disk[path.v] \notin {"missing", "bad"}
                THEN Some(lrc_Lyrics_new(LrcFiles[disk[path.v]]))
                ELSE None
         IN  <<LyricsChanged(lyrics, changed_file_path)>>
    ELSE <<>>

NoRequest == [kind |-> "None"]

WatcherIdle ==
    /\ w_rx = <<>>
    /\ w_lrc_filepath = None
    /\ w_watched = {}
    /\ w_files = [p \in LrcPaths |-> "missing"]
    /\ w_manager = "running"
    /\ w_handled = [input |-> NoRequest, old |-> None, sent |-> <<>>]
    /\ w_requests = 0

WatcherInit ==
    /\ w_rx = <<>>
    /\ w_lrc_filepath = None
    /\ w_watched = {}
    /\ w_files \in [LrcPaths -> {"missing", "f1"}]
    /\ \A p \in LrcPaths : Parent(p) \notin Dirs => w_files[p] = "missing"
    /\ w_manager = "running"
    /\ w_handled = [input |-> NoRequest, old |-> None, sent |-> <<>>]
    /\ w_requests = 0

WatcherFrame ==
    UNCHANGED <<cvars, lvars, pvars, nvars, qvars, kvars, fvars>>

\* LrcManager::change_watched_path
ChangeWatchedPath ==
    /\ w_manager = "running"
    /\ w_requests < MaxRequests
    /\ w_requests' = w_requests + 1
    /\ \E file_path \in {None} \cup {Some(p) : p \in LrcPaths} :
        w_rx' = Append(w_rx, ChangePath(file_path))
    /\ UNCHANGED <<w_lrc_filepath, w_watched, w_files, w_manager, w_handled>>
    /\ WatcherFrame

\* A file under a watched directory is created, modified or removed; the
\* thread LrcManager::new starts passes the watcher's event on.
WatcherEvent ==
    /\ w_manager = "running"
    /\ w_requests < MaxRequests
    /\ w_requests' = w_requests + 1
    /\ \E path \in LrcPaths, content \in {"missing", "bad", "f1", "f2"} :
        /\ Parent(path) \in w_watched
        /\ w_files[path] # content
        /\ w_files' = [w_files EXCEPT ![path] = content]
        /\ w_rx' = Append(w_rx, FileChanged(path))
    /\ UNCHANGED <<w_lrc_filepath, w_watched, w_manager, w_handled>>
    /\ WatcherFrame

\* One round of run_sync.
RunSync ==
    /\ w_manager = "running"
    /\ w_rx # <<>>
    /\ LET input == Head(w_rx)
       IN  IF input.kind = "FileChanged"
           THEN /\ w_handled' =
                     [input |-> input, old |-> w_lrc_filepath,
                      sent |-> on_file_changed(Some(input.file_path),
                                               w_lrc_filepath, w_files)]
                /\ UNCHANGED <<w_lrc_filepath, w_watched, w_manager>>
           ELSE LET r == Rescope(w_watched, w_lrc_filepath, input.file_path)
                IN  /\ w_watched' = r.watched
                    /\ w_lrc_filepath' = r.path
                    /\ w_manager' = IF r.panic THEN "panicked" ELSE "running"
                    /\ w_handled' =
                         [input |-> input, old |-> w_lrc_filepath,
                          sent |-> IF r.panic THEN <<>>
                                   ELSE on_file_changed(input.file_path,
                                                        r.path, w_files)]
    /\ w_rx' = Tail(w_rx)
    /\ UNCHANGED <<w_files, w_requests>>
    /\ WatcherFrame

NextWatcher ==
    \/ ChangeWatchedPath
    \/ WatcherEvent
    \/ RunSync

-----------------------------------------------------------------------------
(* The two caches behind mutexes (active_lyrics_lines, current_timing),    *)
(* the loop thread that fills them and tells the bus, and the thread of    *)
(* run_dbus_server that answers queries from them.  A call is the list of  *)
(* the things it does, in order.                                           *)

MaxCalls == 2

Mutexes == {"active_lyrics_lines", "current_timing"}

Ins(op, m, v) == [op |-> op, m |-> m, v |-> v]

\* What the caches may be given.
CachedLines == {None, Some(<<"abc">>)}
CachedTimings == {None, Some(LyricsTiming(10, 1, 0, 3))}

\* on_lyrics_changed, the closure of main.rs and the method of server.rs.
on_lyrics_changed(lines) ==
    << Ins("lock", "active_lyrics_lines", None),
       Ins("write", "active_lyrics_lines", lines),
       Ins("unlock", "active_lyrics_lines", None),
       Ins("build", "-", None),
       Ins("send", "-", None),
       Ins("info", "-", None) >>

\* on_active_lyrics_segment_changed, the closure of main.rs.
on_active_lyrics_segment_changed(timing) ==
    << Ins("build", "-", None),
       Ins("lock", "current_timing", None),
       Ins("write", "current_timing", timing),
       Ins("unlock", "current_timing", None),
       Ins("send", "-", None) >>

\* Server::on_active_lyrics_segment_changed up to the comparison with the
\* cached value.
Server_on_active_lyrics_segment_changed(timing) ==
    << Ins("build", "-", None),
       Ins("lock", "current_timing", None),
       Ins("compare", "current_timing", timing) >>

\* What follows the comparison: `if prev_value.as_ref() != timing { .. }`,
\* the end of the block, `if value_changed { c.send(s) }`.
AfterCompare(prev_value, timing) ==
    IF prev_value # timing
    THEN << Ins("info", "-", None),
            Ins("write", "current_timing", timing),
            Ins("unlock", "current_timing", None),
            Ins("send", "-", None) >>
    ELSE << Ins("unlock", "current_timing", None) >>

\* A method handler of run_dbus_server: the closure takes the lock, logs,
\* copies the cached value into the reply and returns, which gives the lock
\* back; the reply is sent after that.
Handler(m) ==
    << Ins("lock", m, None),
       Ins("debug", "-", None),
       Ins("copy", m, None),
       Ins("unlock", m, None),
       Ins("send", "-", None) >>

\* env_logger's filter: "info" unless RUST_LOG says otherwise.
LogLevels == {"info", "debug"}

\* The next thing the call does reads or writes outside the process: a
\* message to the bus, or a line of the log at an enabled level.
IsIo(ins, level) ==
    \/ ins.op = "send"
    \/ ins.op = "info"
    \/ ins.op = "debug" /\ level = "debug"

LocksIdle ==
    /\ k_loop = <<>>
    /\ k_server = <<>>
    /\ k_held = [m \in Mutexes |-> "none"]
    /\ k_cache = [m \in Mutexes |-> None]
    /\ k_reply = None
    /\ k_level = "info"
    /\ k_calls = 0

LocksInit ==
    /\ k_loop = <<>>
    /\ k_server = <<>>
    /\ k_held = [m \in Mutexes |-> "none"]
    /\ k_cache = [m \in Mutexes |-> None]
    /\ k_reply = None
    /\ k_level \in LogLevels
    /\ k_calls = 0

LocksFrame ==
    UNCHANGED <<cvars, lvars, pvars, nvars, qvars, wvars, fvars>>

\* The loop calls one of its notification functions.
LoopCalls ==
    /\ k_loop = <<>>
    /\ k_calls < MaxCalls
    /\ k_calls' = k_calls + 1
    /\ k_loop' \in
         {on_lyrics_changed(lines) : lines \in CachedLines}
         \cup {on_active_lyrics_segment_changed(timing) :
                 timing \in CachedTimings}
         \cup {Server_on_active_lyrics_segment_changed(timing) :
                 timing \in CachedTimings}
    /\ UNCHANGED <<k_server, k_held, k_cache, k_reply, k_level>>
    /\ LocksFrame

\* A client calls GetCurrentLyrics or GetCurrentLyricsPosition.
ServerCalled ==
    /\ k_server = <<>>
    /\ k_calls < MaxCalls
    /\ k_calls' = k_calls + 1
    /\ k_server' \in {Handler(m) : m \in Mutexes}
    /\ UNCHANGED <<k_loop, k_held, k_cache, k_reply, k_level>>
    /\ LocksFrame

\* The thread `thread` does the next thing of its call `call`; lock() waits
\* for the mutex to be free.
Does(thread, call) ==
    LET ins == Head(call)
    IN  /\ ins.op = "lock" => k_held[ins.m] = "none"
        /\ k_held' = CASE ins.op = "lock" -> [k_held EXCEPT ![ins.m] = thread]
                       [] ins.op = "unlock" -> [k_held EXCEPT ![ins.m] = "none"]
                       [] OTHER -> k_held
        /\ k_cache' = IF ins.op = "write"
                      THEN [k_cache EXCEPT ![ins.m] = ins.v]
                      ELSE k_cache
        /\ k_reply' = IF ins.op = "copy" THEN k_cache[ins.m] ELSE k_reply

LoopDoes ==
    /\ k_loop # <<>>
    /\ Does("loop", k_loop)
    /\ k_loop' = IF Head(k_loop).op = "compare"
                 THEN AfterCompare(k_cache["current_timing"], Head(k_loop).v)
                 ELSE Tail(k_loop)
    /\ UNCHANGED <<k_server, k_level, k_calls>>
    /\ LocksFrame

ServerDoes ==
    /\ k_server # <<>>
    /\ Does("server", k_server)
    /\ k_server' = Tail(k_server)
    /\ UNCHANGED <<k_loop, k_level, k_calls>>
    /\ LocksFrame

NextLocks ==
    \/ LoopCalls
    \/ ServerCalled
    \/ LoopDoes
    \/ ServerDoes

-----------------------------------------------------------------------------
(* formatters.rs: format_duration.  Durations are whole milliseconds; the  *)
(* f32 arithmetic of the source is exact to well below a centisecond for   *)
(* the durations drawn here, none of which lies on a rounding tie.         *)

MaxSeconds == 125

SECS_PER_MINUTE == 60

\* The durations that are formatted: every whole second up to MaxSeconds
\* with a few millisecond parts, and the durations of the tests.
Durations ==
    {sec * 1000 + ms : sec \in 0..MaxSeconds, ms \in {0, 96, 164, 550, 996}}
    \cup {62550, 3720910}

Digits == <<"0", "1", "2", "3", "4", "5", "6", "7", "8", "9">>

\* Display of a non-negative whole number.
RECURSIVE Decimal(_)
Decimal(n) ==
    IF n < 10 THEN Digits[n + 1]
    ELSE Decimal(n \div 10) \o Digits[(n % 10) + 1]

\* {:02}: at least two digits, padded with zeros.
Width2(n) == IF n < 10 THEN "0" \o Decimal(n) ELSE Decimal(n)

\* {:05.2} of a number of seconds given in milliseconds: rounded to two
\* decimals, at least two digits before the point.
Width5Precision2(ms) ==
    LET centis == (ms + 5) \div 10
    IN  Width2(centis \div 100) \o "." \o Width2(centis % 100)

\* format_duration: (total_seconds / 60).round() and total_seconds % 60.
format_duration(duration) ==
    LET minutes == (duration + (SECS_PER_MINUTE * 1000) \div 2)
                   \div (SECS_PER_MINUTE * 1000)
        seconds == duration % (SECS_PER_MINUTE * 1000)
    IN  Width2(minutes) \o ":" \o Width5Precision2(seconds)

FormatIdle ==
    /\ f_duration = 0
    /\ f_text = ""

FormatInit ==
    /\ f_duration \in Durations
    /\ f_text = ""

\* format_duration(&duration)
Format ==
    /\ f_text = ""
    /\ f_text' = format_duration(f_duration)
    /\ UNCHANGED <<f_duration, cvars, lvars, pvars, nvars, qvars, wvars,
                   kvars>>

NextFormat ==
    \/ Format

-----------------------------------------------------------------------------

ThreadsIdle ==
    ListenerIdle /\ QueryIdle /\ WatcherIdle /\ LocksIdle /\ FormatIdle

Init ==
    /\ LoopInit
    /\ CursorInit /\ c_timings = <<>>
    /\ ParseInit /\ l_lines = <<>>
    /\ ThreadsIdle

Spec == Init /\ [][Next]_vars

\* The cursor alone, beside a loop that has not started.
InitCursor ==
    /\ CursorInit
    /\ LoopInit /\ player = "down" /\ lrc_filepath = None
    /\ ParseInit /\ l_lines = <<>>
    /\ ThreadsIdle

SpecCursor == InitCursor /\ [][NextCursor]_vars

\* Reading a file and building the model, beside a loop that has not started.
InitLyrics ==
    /\ ParseInit
    /\ CursorInit /\ c_timings = <<>>
    /\ LoopInit /\ player = "down" /\ lrc_filepath = None
    /\ ThreadsIdle

SpecLyrics == InitLyrics /\ [][NextLyrics]_vars

\* The listener and the loop that drains its channel, beside the rest at
\* rest.
InitListener ==
    /\ ListenerIdle
    /\ QueryIdle
    /\ WatcherIdle
    /\ LocksIdle
    /\ FormatIdle
    /\ LoopInit /\ player = "down" /\ lrc_filepath = None
    /\ CursorInit /\ c_timings = <<>>
    /\ ParseInit /\ l_lines = <<>>

SpecListener == InitListener /\ [][NextListener]_vars

\* The full-state query, beside the rest at rest.
InitQuery ==
    /\ QueryInit
    /\ ListenerIdle
    /\ WatcherIdle
    /\ LocksIdle
    /\ FormatIdle
    /\ LoopInit /\ player = "down" /\ lrc_filepath = None
    /\ CursorInit /\ c_timings = <<>>
    /\ ParseInit /\ l_lines = <<>>

SpecQuery == InitQuery /\ [][NextQuery]_vars

\* The lyrics file manager, beside the rest at rest.
InitWatcher ==
    /\ WatcherInit
    /\ ListenerIdle
    /\ QueryIdle
    /\ LocksIdle
    /\ FormatIdle
    /\ LoopInit /\ player = "down" /\ lrc_filepath = None
    /\ CursorInit /\ c_timings = <<>>
    /\ ParseInit /\ l_lines = <<>>

SpecWatcher == InitWatcher /\ [][NextWatcher]_vars

\* The caches and their two threads, beside the rest at rest.
InitLocks ==
    /\ LocksInit
    /\ ListenerIdle
    /\ QueryIdle
    /\ WatcherIdle
    /\ FormatIdle
    /\ LoopInit /\ player = "down" /\ lrc_filepath = None
    /\ CursorInit /\ c_timings = <<>>
    /\ ParseInit /\ l_lines = <<>>

SpecLocks == InitLocks /\ [][NextLocks]_vars

\* format_duration over the durations, beside the rest at rest.
InitFormat ==
    /\ FormatInit
    /\ ListenerIdle
    /\ QueryIdle
    /\ WatcherIdle
    /\ LocksIdle
    /\ LoopInit /\ player = "down" /\ lrc_filepath = None
    /\ CursorInit /\ c_timings = <<>>
    /\ ParseInit /\ l_lines = <<>>

SpecFormat == InitFormat /\ [][NextFormat]_vars

-----------------------------------------------------------------------------
(* Properties of the cursor (SpecCursor).                                  *)

IsSorted(timings) ==
    \A i, j \in 1..Len(timings) : i < j => timings[i].time <= timings[j].time

MaxOf(S) == CHOOSE x \in S : \A y \in S : y <= x
MinOf(S) == CHOOSE x \in S : \A y \in S : x <= y

\* The last call was on_new_progress (it returned or it panicked).
Advanced == c_op \in {"on_new_progress", "panic"}

\* C5: on a time-sorted list, LrcTimedTextState::new at position p leaves
\* current at the last mark with time <= p (None if there is none) and next
\* at the first mark with time > p (None if there is none); the empty list
\* gives None for both, and marks at 0, 1000, 2000 ms with p = 1500 ms give
\* current = the mark at 1000 and next = the mark at 2000.
C5_ResyncCurrentNext ==
    (c_op = "new" /\ IsSorted(c_timings)) =>
        LET le == {i \in 1..Len(c_timings) : c_timings[i].time <= c_pos}
            gt == {i \in 1..Len(c_timings) : c_timings[i].time > c_pos}
        IN  /\ c_state.v.current = (IF le = {} THEN 0 ELSE MaxOf(le))
            /\ c_state.v.next = (IF gt = {} THEN 0 ELSE MinOf(gt))
            /\ (c_timings = <<>> =>
                    c_state.v.current = 0 /\ c_state.v.next = 0)
            /\ (c_timings = ExampleTimings /\ c_pos = 1500 =>
                    /\ c_timings[c_state.v.current].time = 1000
                    /\ c_timings[c_state.v.next].time = 2000)

C5_Witness ==
    /\ c_op = "new"
    /\ c_timings = ExampleTimings
    /\ c_pos = 1500
    /\ c_state.v.current = 2
    /\ c_state.v.next = 3

\* C6: on_new_progress(p) returns a mark exactly when next exists and
\* p >= next.time - 8 ms; then current is the old next, next is the mark
\* after it and the returned mark is the new current; otherwise the cursor
\* is unchanged.
C6_AdvanceIffWithinHalfTick ==
    Advanced =>
        LET pre == c_prev.v
            fires == /\ pre.next # 0
                     /\ c_pos >= c_timings[pre.next].time - 8
        IN  /\ c_ret.some <=> fires
            /\ fires =>
                /\ c_state.v.current = pre.next
                /\ c_state.v.next = IterNext(c_timings, pre.iter).item
                /\ c_ret = Some(<<c_pos, c_timings[pre.next]>>)
            /\ ~fires => c_state = c_prev

\* C7: the tolerance is min(halfTick, next.time): for a next mark with
\* 0 < time < 8 ms on_new_progress does not fail and returns that mark for
\* every position.
C7_ToleranceClamped ==
    (/\ Advanced
     /\ c_prev.v.next # 0
     /\ c_timings[c_prev.v.next].time > 0
     /\ c_timings[c_prev.v.next].time < 8) =>
        /\ c_op # "panic"
        /\ c_ret = Some(<<c_pos, c_timings[c_prev.v.next]>>)

\* on_new_progress(p) was called right after new(p), with the same p.
AdvancedAfterResync == Advanced /\ c_pop = "new" /\ c_ppos = c_pos

\* C8 as claimed: new(p) followed at once by on_new_progress(p) returns no
\* mark and leaves the cursor unchanged.
C8_ResyncThenAdvanceReturnsNothing ==
    AdvancedAfterResync =>
        /\ c_op # "panic"
        /\ c_ret = None
        /\ c_state = c_prev

\* No mark lies in the half-tick window (p, p + REFRESH_EVERY / 2] after p.
NoMarkInWindow(timings, p) ==
    \A i \in 1..Len(timings) :
        ~(p < timings[i].time /\ timings[i].time <= p + (REFRESH_EVERY \div 2))

\* C8 as amended: new(p) followed at once by on_new_progress(p) returns no
\* mark and leaves the cursor unchanged, provided no mark's time lies in
\* the half-tick window (p, p + 8 ms].
C8_ResyncThenAdvanceOutsideWindow ==
    (AdvancedAfterResync /\ NoMarkInWindow(c_timings, c_pos)) =>
        /\ c_op # "panic"
        /\ c_ret = None
        /\ c_state = c_prev

C8_Witness ==
    /\ AdvancedAfterResync
    /\ NoMarkInWindow(c_timings, c_pos)
    /\ c_prev.v.next # 0
    /\ c_ret = None

\* C19: whenever the cursor has a next mark, current is absent or earlier
\* than next, and next is the first mark not yet consumed: the marks before
\* it in the list have all been passed (current is the one right before
\* it) and the marks after it are all still in the iterator.
C19_NextAfterCurrent ==
    (c_state.some /\ c_state.v.next # 0) =>
        /\ \/ c_state.v.current = 0
           \/ c_timings[c_state.v.next].time >
                c_timings[c_state.v.current].time
        /\ c_state.v.current = c_state.v.next - 1
        /\ c_state.v.iter = c_state.v.next

\* The mark a reference of the cursor points to.
MarkOf(timings, ref) == IF ref = 0 THEN None ELSE Some(timings[ref])

\* The last call reloaded the lyrics, the position unchanged, and the new
\* marks are the old ones followed by zero or more.
ReloadedSuperset ==
    /\ c_op = "reload"
    /\ c_pos = c_ppos
    /\ IsPrefix(c_old, c_timings)

SameCursorMarks ==
    /\ MarkOf(c_timings, c_state.v.current) = MarkOf(c_old, c_prev.v.current)
    /\ MarkOf(c_timings, c_state.v.next) = MarkOf(c_old, c_prev.v.next)

\* C20 as claimed: after a reload at an unchanged position with new marks
\* that have the old marks as a prefix, the cursor has the same current and
\* next marks as before the reload.
C20_ReloadSupersetKeepsCursor == ReloadedSuperset => SameCursorMarks

\* C20 as amended: after a reload at an unchanged position with new marks
\* that have the old marks as a prefix, the cursor has the same current and
\* next marks as before the reload, provided the cursor before the reload
\* was the one a resync at that position gives and had a next mark.
C20_ReloadSupersetKeepsSyncedCursor ==
    (/\ ReloadedSuperset
     /\ c_prev.v = LrcTimedTextState_new(c_old, c_pos)
     /\ c_prev.v.next # 0) => SameCursorMarks

\* Marks were added behind the old ones and the cursor did not move.
C20_Witness ==
    /\ ReloadedSuperset
    /\ Len(c_old) < Len(c_timings)
    /\ c_prev.v = LrcTimedTextState_new(c_old, c_pos)
    /\ c_prev.v.current # 0
    /\ c_prev.v.next # 0
    /\ SameCursorMarks

-----------------------------------------------------------------------------
(* Properties of the lyrics model (SpecLyrics).                            *)

\* A Lyrics was built from the parsed file, by either Lyrics::new.
Built == l_op \in {"main", "lrc"}

\* C17: the timing marks of every lyrics model built from a parsed file
\* are in ascending order of time, whatever the order of the timestamps
\* and the offset tags in the file.
C17_TimingsSorted == Built => IsSorted(l_lyrics.timings)

\* C18: a non-empty mark list of a built lyrics model starts with the mark
\* {time 0, line 0, from 0, to 0}, so LrcTimedTextState::new finds a current
\* mark at every position; a file without timed lines gives no marks.
C18_SyntheticZeroMark ==
    Built =>
        /\ l_lyrics.timings # <<>> =>
              /\ l_lyrics.timings[1] = LyricsTiming(0, 0, 0, 0)
              /\ \A p \in 0..MaxPos :
                    LrcTimedTextState_new(l_lyrics.timings, p).current # 0
        /\ l_file.timed_texts_lines = <<>> => l_lyrics.timings = <<>>

-----------------------------------------------------------------------------
(* Properties of the loop (Spec).                                          *)

\* The last step handled an event of this kind.
Handled(kind) == step.kind = "event" /\ step.event.event.kind = kind

HandledStatus(status) ==
    /\ Handled("PlaybackStatusChange")
    /\ step.event.event.status = status

\* C1: whatever the state before, none included, handling
\* PlaybackStatusChange(Stopped) of instant t leaves the state
\* {Stopped, position 0 captured at t, no metadata}.
C1_StoppedResets ==
    HandledStatus("Stopped") =>
        progress = Some(Progress("Stopped", 0, step.event.instant, None))

C1_Witness ==
    /\ HandledStatus("Stopped")
    /\ step.before.some
    /\ step.before.v.metadata.some
    /\ step.before.v.position_snapshot.position # 0
    /\ progress = Some(Progress("Stopped", 0, step.event.instant, None))

\* C2: after Seeked{p} is handled while a state exists, the position
\* snapshot is {p, the instant of the event}, so the current position taken
\* at that instant is p, whatever the playback status.
C2_SeekedSnapshot ==
    (Handled("Seeked") /\ step.before.some) =>
        /\ progress.some
        /\ progress.v.position_snapshot =
             [position |-> step.event.event.position,
              instant |-> step.event.instant]
        /\ current_position(progress.v, step.event.instant) =
             step.event.event.position

C2_Witness ==
    /\ Handled("Seeked")
    /\ step.before.some
    /\ progress.v.playback_status = "Playing"
    /\ step.before.v.position_snapshot.position # step.event.event.position
    /\ step.before.v.position_snapshot.instant < step.event.instant
    /\ step.event.instant < now
    /\ current_position(progress.v, step.event.instant) =
         step.event.event.position

\* The position of the pause could not be resolved: no owner of the player
\* is known, or the position query failed.
PausedUnresolved ==
    /\ HandledStatus("Paused")
    /\ ~player_owner_name.some \/ (step.query.asked /\ ~step.query.ok)

\* C3: PlaybackStatusChange(Paused) handled when the position cannot be
\* resolved produces no Paused state with a defaulted or stale position:
\* with a state the loop stops with a panic (the report) and the state is
\* not replaced; without a state there is still none.
C3_PausedUnresolvedRejected ==
    PausedUnresolved =>
        /\ step.before.some => (pc = "panicked" /\ progress = step.before)
        /\ ~step.before.some => progress = None

C3_Witness ==
    /\ PausedUnresolved
    /\ step.before.some
    /\ step.before.v.playback_status = "Playing"
    /\ step.query.asked
    /\ pc = "panicked"

\* C4: in every player state the metadata is absent exactly when the
\* status is Stopped.
C4_MetadataAbsentIffStopped ==
    progress.some =>
        (progress.v.metadata = None <=> progress.v.playback_status = "Stopped")

\* C9: ActiveLyricsSegmentChanged is never sent twice in a row with the
\* same mark.
C9_NoRepeatedSegmentSignal ==
    \A i \in 1..(Len(bus) - 1) : bus[i] # bus[i + 1]

\* The current mark of the cursor, as the sink is told it.
CurrentMark ==
    IF lrc_state.some /\ lrc_state.v.current # 0
    THEN Some(lrc.v.lyrics.timings[lrc_state.v.current])
    ELSE None

\* What the sink had last been told before the last step.
NotifiedBefore ==
    IF step.segs = <<>> THEN current_timing
    ELSE IF Len(bus) > Len(step.segs) THEN bus[Len(bus) - Len(step.segs)]
    ELSE None

\* C10: in a tick that drained an event from the player channel or from
\* the file watcher, the cursor is rebuilt at the position after the
\* events, and the sink is notified in that tick exactly when the current
\* mark (None included) differs from the one last notified.
C10_ResyncAndNotifyOnChange ==
    (step.kind = "tail" /\ (received_events \/ step.polled)
        /\ pc # "panicked") =>
        /\ lrc_state = NewState(lrc, progress, now)
        /\ step.segs # <<>> <=> CurrentMark # NotifiedBefore

\* C12: handling PlaybackStatusChange(Playing) of instant t on an existing
\* state gives status Playing, the snapshot {the position stored before, t}
\* and the metadata stored before; without a state there is still none.
C12_PlayingRebasesSnapshot ==
    HandledStatus("Playing") =>
        IF step.before.some
        THEN /\ progress.some
             /\ progress.v.playback_status = "Playing"
             /\ progress.v.position_snapshot.position =
                  step.before.v.position_snapshot.position
             /\ progress.v.position_snapshot.instant = step.event.instant
             /\ progress.v.metadata = step.before.v.metadata
        ELSE progress = None

C12_Witness ==
    /\ HandledStatus("Playing")
    /\ step.before.some
    /\ step.before.v.playback_status = "Paused"
    /\ step.before.v.position_snapshot.position # 0
    /\ step.before.v.position_snapshot.instant < step.event.instant
    /\ step.before.v.metadata.some
    /\ progress.v.playback_status = "Playing"
    /\ progress.v.position_snapshot.instant = step.event.instant

\* C13: Seeked and MetadataChange keep the playback status and leave an
\* absent state absent; Seeked keeps the metadata and MetadataChange keeps
\* the position snapshot.
C13_SeekedAndMetadataFrame ==
    (Handled("Seeked") \/ Handled("MetadataChange")) =>
        IF step.before.some
        THEN /\ progress.some
             /\ progress.v.playback_status = step.before.v.playback_status
             /\ Handled("Seeked") =>
                    progress.v.metadata = step.before.v.metadata
             /\ Handled("MetadataChange") =>
                    progress.v.position_snapshot =
                        step.before.v.position_snapshot
        ELSE progress = None

C13_Witness ==
    /\ Handled("MetadataChange")
    /\ step.before.some
    /\ step.before.v.playback_status = "Playing"
    /\ step.before.v.position_snapshot.position # 0
    /\ step.before.v.metadata # step.event.event.metadata
    /\ progress.v.metadata = step.event.event.metadata
    /\ progress.v.position_snapshot = step.before.v.position_snapshot

\* The loop is about to handle an event of this kind.
Next_(kind) ==
    /\ pc = "events"
    /\ timed_events # <<>>
    /\ Head(timed_events).event.kind = kind

NextIsStopped ==
    /\ Next_("PlaybackStatusChange")
    /\ Head(timed_events).event.status = "Stopped"

\* C14 as claimed: the player state is absent at the start and after every
\* PlayerShutDown, and an absent state becomes present only by the
\* full-state query at the top of the loop: no Seeked, PlaybackStatusChange
\* or MetadataChange event makes an absent state present.
C14_PresentOnlyThroughQuery ==
    /\ progress = None
    /\ [][/\ Next_("PlayerShutDown") => progress' = None
          /\ (~progress.some /\ progress'.some) => pc = "top"]_vars

\* C14 as amended: the player state is absent at the start and after every
\* PlayerShutDown, and an absent state becomes present only by the
\* full-state query at the top of the loop or by
\* PlaybackStatusChange(Stopped), which builds the Stopped state from
\* nothing: no Seeked, PlaybackStatusChange(Playing),
\* PlaybackStatusChange(Paused) or MetadataChange event makes an absent
\* state present.
C14_PresentOnlyThroughQueryOrStopped ==
    /\ progress = None
    /\ [][/\ Next_("PlayerShutDown") => progress' = None
          /\ (~progress.some /\ progress'.some) =>
                (pc = "top" \/ NextIsStopped)]_vars

\* A Playing event was handled without a state and left none.
C14_Witness ==
    /\ HandledStatus("Playing")
    /\ player = "up"
    /\ ~step.before.some
    /\ progress = None

\* The query of the state at the top of the loop has just answered, and an
\* event of this kind had arrived after PlayerStarted in the same batch.
QueriedAfter(kind) ==
    /\ step.kind = "top"
    /\ pc = "read"
    /\ step.overtaken.event.kind = kind

\* C15: the player state after a batch is the result of applying its
\* events in arrival order, PlayerStarted (the query of the full state)
\* at its own place: the effect of an event that arrived after
\* PlayerStarted in the same batch is still there once the query has
\* answered.
C15_EventsAfterStartedSurvive ==
    /\ QueriedAfter("Seeked") =>
          progress.v.position_snapshot =
              [position |-> step.overtaken.event.position,
               instant |-> step.overtaken.instant]
    /\ (QueriedAfter("PlaybackStatusChange")
         /\ step.overtaken.event.status = "Stopped") =>
          progress = Some(Progress("Stopped", 0, step.overtaken.instant, None))
    /\ (QueriedAfter("PlaybackStatusChange")
         /\ step.overtaken.event.status = "Playing") =>
          /\ progress.v.playback_status = "Playing"
          /\ progress.v.position_snapshot.instant = step.overtaken.instant
    /\ QueriedAfter("MetadataChange") =>
          progress.v.metadata = step.overtaken.event.metadata

\* C16: when the query of the full state that follows a PlayerStarted
\* event fails, the loop goes on (it reads the next batch) with or without
\* a player state instead of stopping with a panic.
C16_FailedStateQueryTolerated ==
    [][(pc = "top" /\ step.kind = "tail") =>
          pc' = "read"]_vars

\* The loop is at the end of an iteration that drained no event, neither
\* from the player channel nor from the file watcher.
IdleTick ==
    /\ pc = "events"
    /\ timed_events = <<>>
    /\ ~received_events
    /\ ~(lrc.some /\ lrc.v.rx # <<>>)

\* C11: in a tick that drained no event, the cursor is advanced exactly
\* when a player state exists with status Playing, and the sink is notified
\* exactly when the advance returns a mark; with status Paused or Stopped,
\* or no player state, the tick leaves the cursor and the last notified
\* segment unchanged and sends nothing.
C11_IdleTickAdvancesOnlyWhenPlaying ==
    [][IdleTick =>
        IF progress.some /\ progress.v.playback_status = "Playing"
        THEN IF lrc_state.some
             THEN LET r == on_new_progress(lrc_state.v, lrc.v.lyrics.timings,
                                           current_position(progress.v, now))
                  IN  /\ lrc_state' = Some(r.state)
                      /\ step'.segs # <<>> <=> r.ret.some
                      /\ r.ret.some =>
                            /\ step'.segs = <<Some(r.ret.v[2])>>
                            /\ current_timing' = Some(r.ret.v[2])
                      /\ ~r.ret.some => current_timing' = current_timing
             ELSE /\ lrc_state' = lrc_state
                  /\ current_timing' = current_timing
                  /\ step'.segs = <<>>
        ELSE /\ lrc_state' = lrc_state
             /\ current_timing' = current_timing
             /\ bus' = bus
             /\ step'.segs = <<>>
             /\ pc' # "panicked"]_vars

\* An idle tick of a playing player advanced the cursor and notified.
C11_Witness ==
    /\ step.kind = "tail"
    /\ ~received_events
    /\ ~step.polled
    /\ progress.some /\ progress.v.playback_status = "Playing"
    /\ step.segs # <<>>
    /\ current_timing = step.segs[1]

\* An idle tick of a paused player whose next mark is within the tolerance.
C11_WitnessPaused ==
    /\ step.kind = "tail"
    /\ ~received_events
    /\ ~step.polled
    /\ progress.some /\ progress.v.playback_status = "Paused"
    /\ lrc_state.some /\ lrc_state.v.next # 0
    /\ current_position(progress.v, now) + Tolerance >=
         lrc.v.lyrics.timings[lrc_state.v.next].time

\* The lyrics path the loop has loaded, if any.
LoadedPath == IF lrc.some THEN Some(lrc.v.lrc_filepath) ELSE None

\* get_lrc_filepath(&p).or_else(|| lrc_filepath.clone()) for the state p.
ResolvedPath(p) ==
    OrElse(IF p.some THEN get_lrc_filepath(p.v) ELSE None, lrc_filepath)

\* C21: a MetadataChange, or the query that follows a PlayerStarted, whose
\* resolved lyrics path equals the loaded lyrics path triggers no reload:
\* the model is not rebuilt and no lyrics-changed notification is emitted.
C21_SamePathNoReload ==
    [][/\ (/\ Next_("MetadataChange")
           /\ LoadedPath.some
           /\ ResolvedPath(progress') = LoadedPath)
              => (lrc' = lrc /\ step'.lyrics_changed = 0)
       /\ (/\ pc = "top" /\ pc' = "read"
           /\ LoadedPath.some
           /\ ResolvedPath(progress') = LoadedPath)
              => (lrc' = lrc /\ step'.lyrics_changed = 0)]_vars

\* The end of an iteration finds a watcher event about the loaded lyrics file.
LyricsChange ==
    /\ pc = "events"
    /\ timed_events = <<>>
    /\ lrc.some
    /\ lrc.v.rx # <<>>
    /\ Head(lrc.v.rx).path = lrc.v.lrc_filepath

\* What reading the loaded lyrics path yields now.
LyricsNow == LrcManager_new(lrc.v.lrc_filepath)

\* The cursor is the resync at the current position, or that resync advanced
\* by the idle tick of the same iteration.
Resynced(l, state) ==
    LET fresh == IF l.some /\ progress.some
                 THEN Some(new_timed_text_state(l.v, progress.v, now))
                 ELSE None
    IN  \/ state = fresh
        \/ /\ fresh.some
           /\ state.some
           /\ state.v = on_new_progress(fresh.v, l.v.lyrics.timings,
                                        current_position(progress.v, now)).state

\* C22: when a change of the lyrics file yields absent lyrics (the file was
\* removed, is missing or fails to parse) the loop clears the model and the
\* cursor and reports absent lyrics; when it yields lyrics the model is
\* replaced and the cursor is resynced against the latest known position.
C22_LyricsChangeApplied ==
    [][LyricsChange =>
        IF LyricsNow.some
        THEN /\ lrc'.some
             /\ lrc'.v.lyrics = LyricsNow.v.lyrics
             /\ active_lyrics_lines' = LinesOf(LyricsNow)
             /\ Resynced(lrc', lrc_state')
        ELSE /\ lrc' = None
             /\ lrc_state' = None
             /\ active_lyrics_lines' = None
             /\ step'.lyrics_changed = 1]_vars

\* The producer of the loop's channel has exited.
ProducerExited == listener \in {"panicked", "failed"}

\* C23: the loop keeps ticking while its channel is connected and returns
\* (it does not panic) at the first tick whose drain finds the channel
\* disconnected for good; the channel is disconnected once the producer has
\* exited.
C23_LoopReturnsOnceProducerExited ==
    /\ [][/\ (main = "running" /\ ~Disconnected) => main' = "running"
          /\ (main = "running" /\ Disconnected /\ sender' # sender)
                => main' = "returned"]_vars
    /\ [](ProducerExited => (Disconnected \/ main = "returned"))

\* C24: player events reach the loop in the order of the notifications they
\* derive from: the loop takes every event of an earlier notification before
\* any event of a later one, and each event carries the instant at which its
\* notification was received, not the one at which it was forwarded or taken.
C24_InOrderWithReceiptInstant ==
    /\ \A i, j \in 1..Len(applied) :
            i < j => applied[i].of <= applied[j].of
    /\ \A i \in 1..Len(applied) :
         /\ \A k \in 1..Len(sender) : applied[i].of <= sender[k].of
         /\ \A k \in 1..Len(dbus_event_receiver) :
                applied[i].of < dbus_event_receiver[k].of
         /\ applied[i].of \in 1..Len(notified)
         /\ applied[i].instant = notified[applied[i].of].instant

\* The loop has taken the events of two notifications received at different
\* instants, the later one some time after it was received.
C24_Witness ==
    \E i, j \in 1..Len(applied) :
        /\ applied[i].of < applied[j].of
        /\ applied[i].instant < applied[j].instant
        /\ applied[j].instant < instant_now
        /\ notified[applied[j].of].signal.signal = "PropertiesChanged"

\* The notification the listener handled last carried a negative position.
HandledNegativePosition ==
    /\ handled.of > 0
    /\ LET n == notified[handled.of].signal
       IN  \/ n.signal = "Seeked" /\ n.position_us < 0
           \/ /\ n.signal = "PropertiesChanged"
              /\ n.interface_name = PlayerInterface
              /\ \E e \in n.changed_properties :
                    e.key = "Position" /\ e.value.x < 0

\* No Seeked event with a negative position is on its way to the loop or was
\* taken by it.
NoInvalidSeeked ==
    \A q \in {sender, applied} : \A i \in 1..Len(q) :
        q[i].event.kind = "Seeked" => q[i].event.position >= 0

\* C26: a Seeked signal or a Position property change with a negative value
\* is rejected at the listener as an error value: no Seeked event with an
\* invalid position is forwarded to the loop, and the listener keeps running
\* and delivering later events.
C26_NegativePositionRejected ==
    /\ NoInvalidSeeked
    /\ HandledNegativePosition => listener = "running"

\* The kinds of the events the listener sent for the notification it handled
\* last.
HandledKinds == [i \in 1..Len(handled.events) |-> handled.events[i].kind]

\* The listener handled last a NameOwnerChanged(name, old_owner, new_owner)
\* of the bus.
HandledOwnerChange ==
    /\ handled.of > 0
    /\ notified[handled.of].signal.signal = "NameOwnerChanged"

\* C29: of the name-ownership notifications, one by which the player's
\* well-known name gets an owner makes exactly one PlayerStarted, one by
\* which it loses its owner makes exactly one PlayerShutDown, and one about
\* any other bus name makes no event.
C29_OwnerChangeEvents ==
    HandledOwnerChange =>
        LET args == notified[handled.of].signal.args
            name == args[1]
            old_owner == args[2]
            new_owner == args[3]
        IN  /\ ~handled.panic
            /\ (name = player_bus /\ old_owner = "" /\ new_owner # "")
                    => HandledKinds = <<"PlayerStarted">>
            /\ (name = player_bus /\ old_owner # "" /\ new_owner = "")
                    => HandledKinds = <<"PlayerShutDown">>
            /\ name # player_bus => HandledKinds = <<>>

\* The player's name got an owner, and later lost it: the loop has taken one
\* PlayerStarted and the listener has just sent one PlayerShutDown.
C29_Witness ==
    /\ HandledOwnerChange
    /\ notified[handled.of].signal =
            NameOwnerChanged(player_bus, UniqueName, "")
    /\ HandledKinds = <<"PlayerShutDown">>
    /\ Len(applied) = 1
    /\ applied[1].event.kind = "PlayerStarted"

\* The PlaybackStatus property is there and is one of the three statuses.
StatusGiven ==
    /\ q_properties.PlaybackStatus.some
    /\ q_properties.PlaybackStatus.v.type = "s"
    /\ q_properties.PlaybackStatus.v.s \in PlaybackStatus

\* A property the state needs is missing: PlaybackStatus, or beside a given
\* status Position, or Metadata unless the status is Stopped.
RequiredMissing ==
    \/ ~q_properties.PlaybackStatus.some
    \/ /\ StatusGiven
       /\ \/ ~q_properties.Position.some
          \/ /\ q_properties.PlaybackStatus.v.s # "Stopped"
             /\ ~q_properties.Metadata.some

\* Every property is there and well formed (Metadata only counts unless the
\* status is Stopped).
WellFormed ==
    /\ StatusGiven
    /\ q_properties.Position.some
    /\ q_properties.Position.v.type = "x"
    /\ q_properties.Position.v.x >= 0
    /\ q_properties.PlaybackStatus.v.s # "Stopped" =>
         /\ q_properties.Metadata.some
         /\ parse_player_metadata(q_properties.Metadata.v).ok

\* C30: the full-state query builds a state whose status and position are
\* those of the PlaybackStatus and Position properties, whose snapshot
\* instant is the instant of the query, and whose metadata is parsed from
\* the Metadata property unless the status is Stopped, when it is absent
\* even if a Metadata property is there; a missing required property gives
\* an error value and no state.
C30_ParsePlayerState ==
    q_op = "parsed" =>
        /\ RequiredMissing => q_result = StateErr
        /\ WellFormed <=> q_result.result = "Ok"
        /\ q_result.result = "Ok" =>
            /\ q_result.v.playback_status = q_properties.PlaybackStatus.v.s
            /\ q_result.v.position_snapshot.position
                    = q_properties.Position.v.x
            /\ q_result.v.position_snapshot.instant = q_instant
            /\ q_result.v.metadata =
                    IF q_properties.PlaybackStatus.v.s = "Stopped" THEN None
                    ELSE IF q_properties.Metadata.v.url.some
                         THEN Some("/m/a.mp3")
                         ELSE None

\* A stopped player answered with a Metadata property that names a file, at
\* a later instant than the start: the state has no metadata.
C30_Witness ==
    /\ q_op = "parsed"
    /\ q_properties.PlaybackStatus = Some(Str("Stopped"))
    /\ q_properties.Position = Some(I64(41337000))
    /\ q_properties.Metadata = Some(Dict(Some(Str("file:///m/a.mp3"))))
    /\ q_instant > 0
    /\ q_result = StateOk(PlayerState("Stopped", 41337000, q_instant, None))

\* C25: after any sequence of ChangePath requests the watcher of a running
\* manager watches exactly one directory, the parent of the current lyrics
\* path, or none when the path is absent: the directory of the old path is
\* unwatched before the new one is watched, so watches never accumulate.
C25_OneWatchedDirectory ==
    w_manager = "running" =>
        w_watched = IF w_lrc_filepath.some
                    THEN {Parent(w_lrc_filepath.v)}
                    ELSE {}

\* The manager has just moved from a path in one directory to a path in
\* another.
C25_Witness ==
    /\ w_manager = "running"
    /\ w_handled.input = ChangePath(Some("/n/c.lrc"))
    /\ w_handled.old = Some("/m/a.lrc")
    /\ w_lrc_filepath = Some("/n/c.lrc")
    /\ w_watched = {"/n"}

\* The lyrics of the loaded model, if any.
LoadedLyrics == IF lrc.some THEN Some(lrc.v.lyrics) ELSE None

\* The cursor is the resync over the loaded model at the current position
\* (advanced by the idle tick of the same iteration, if at all).
CursorFresh == Resynced(lrc, lrc_state)

\* The marks the cursor refers to are marks of the loaded model.
CursorWithinModel ==
    lrc_state.some =>
        /\ lrc.some
        /\ lrc_state.v.current \in 0..Len(lrc.v.lyrics.timings)
        /\ lrc_state.v.next \in 0..Len(lrc.v.lyrics.timings)

\* C28: whenever the lyrics model is replaced or cleared, the cursor is
\* replaced or cleared in the same step of the loop: wherever the cursor is
\* read it refers to marks of the loaded model, never to a model that has
\* been replaced.
C28_CursorFollowsModel ==
    /\ [](CursorWithinModel)
    /\ [][LoadedLyrics' # LoadedLyrics =>
            /\ ~LoadedLyrics'.some => lrc_state' = None
            /\ LoadedLyrics'.some => (lrc_state' = None \/ CursorFresh')]_vars

\* The end of an iteration replaced a loaded model by another with other
\* marks while the player was known, and left a cursor.
C28_Witness ==
    /\ step.kind = "tail"
    /\ step.lyrics_changed = 1
    /\ lrc.some /\ lrc_state.some
    /\ files[lrc.v.lrc_filepath] = "f2"
    /\ lrc_state.v.current # 0


-----------------------------------------------------------------------------
\* The mutexes the thread `thread` holds.
HeldBy(thread) == {m \in Mutexes : k_held[m] = thread}

\* The thread whose call is `call` is about to send to the bus.
AboutToSend(call) == call # <<>> /\ Head(call).op = "send"

\* The thread whose call is `call` is about to read or write outside the
\* process.
AboutToDoIo(call) == call # <<>> /\ IsIo(Head(call), k_level)

\* No bus message leaves while its sender holds a cache mutex.
BusSendsOutsideLocks ==
    /\ AboutToSend(k_loop) => HeldBy("loop") = {}
    /\ AboutToSend(k_server) => HeldBy("server") = {}

\* C27: no thread sends a bus message or does other I/O while it holds a
\* cache mutex: whenever the loop thread or the server thread is about to
\* send a message or write a line of the log, it holds neither the
\* lyrics-lines lock nor the current-segment lock.
C27_NoIoUnderLock ==
    /\ AboutToDoIo(k_loop) => HeldBy("loop") = {}
    /\ AboutToDoIo(k_server) => HeldBy("server") = {}


-----------------------------------------------------------------------------
\* The entries of the PropertiesChanged notification last handled.
HandledEntries == notified[handled.of].signal.changed_properties

\* The listener has just handled a PropertiesChanged of the player interface.
HandledProperties ==
    /\ handled.signal = "PropertiesChanged"
    /\ notified[handled.of].signal.interface_name = PlayerInterface

\* The value of the entry is one the player's interface allows for its key.
WellFormedEntry(e) ==
    CASE e.key = "PlaybackStatus" ->
            e.value.type = "s" /\ e.value.s \in PlaybackStatus
      [] e.key = "Metadata" ->
            /\ e.value.type = "a{sv}"
            /\ e.value.url.some =>
                 /\ e.value.url.v.type = "s"
                 /\ e.value.url.v.s \in {"file:///m/a.mp3", "/m/b.mp3"}
      [] e.key = "Position" -> e.value.type = "x" /\ e.value.x >= 0
      [] OTHER -> TRUE

\* The event the claim gives to an entry.
EventOf(e) ==
    CASE e.key = "PlaybackStatus" -> PlaybackStatusChange(e.value.s)
      [] e.key = "Metadata" ->
            MetadataChange(IF ~e.value.url.some THEN None
                           ELSE IF e.value.url.v.s = "file:///m/a.mp3"
                                THEN Some("/m/a.mp3")
                                ELSE Some(e.value.url.v.s))
      [] e.key = "Position" -> SeekedEvent(e.value.x)
      [] OTHER -> [kind |-> "Unknown", key |-> e.key, value |-> e.value]

-----------------------------------------------------------------------------
\* MM:SS.cc as the claim has it: the whole minutes contained in the
\* duration, and the seconds that remain, rounded to centiseconds.
MinutesSecondsCentis(duration) ==
    Width2(duration \div 60000) \o ":" \o Width5Precision2(duration % 60000)

\* C32: format_duration renders every duration as MM:SS.cc where MM is the
\* number of whole minutes contained in the duration (at least two digits,
\* not wrapped at 60) and SS.cc the remaining seconds below 60, rounded to
\* centiseconds.
C32_FormatDuration ==
    f_text # "" => f_text = MinutesSecondsCentis(f_duration)

\* The examples of the claim are formatted as it says.
C32_Examples ==
    /\ format_duration(62550) = "01:02.55"
    /\ format_duration(3720910) = "62:00.91"
    /\ format_duration(96) = "00:00.10"


-----------------------------------------------------------------------------
\* The iteration whose last event was PlayerShutDown comes to its end.
ShutDownTickEnds ==
    /\ step.kind = "event"
    /\ step.event.event.kind = "PlayerShutDown"
    /\ step'.kind = "tail"

\* C33: after PlayerShutDown has been processed, the current segment served
\* to queries and last notified to the sink is absent: at the end of the
\* iteration that handled PlayerShutDown last, current_timing is None and
\* the last payload sent, if any was ever sent, is the absent segment.
C33_ShutDownClearsSegment ==
    [][ShutDownTickEnds =>
          /\ current_timing' = None
          /\ bus' # <<>> => bus'[Len(bus')] = None]_vars


-----------------------------------------------------------------------------
\* C34: handling PlaybackStatusChange(Playing) never moves the playback
\* position backwards: the position of the state after the event, taken at
\* the instant of the event, is at least the position of the state before
\* the event taken at that instant, also when the state before was Playing.
C34_PlayingNeverMovesBack ==
    (HandledStatus("Playing") /\ step.before.some) =>
        current_position(progress.v, step.event.instant)
            >= current_position(step.before.v, step.event.instant)


-----------------------------------------------------------------------------
\* The last mark of `timings` whose time is at most v, 0 when there is none.
LastMarkUpTo(timings, v) ==
    MaxOf({0} \cup {i \in 1..Len(timings) : timings[i].time <= v})

\* The cursor was built at c_ppos and advance was then called at c_pos, not
\* before c_ppos: the first tick of steady playback.
AdvancedSteadily ==
    /\ c_op = "on_new_progress"
    /\ c_pop = "new"
    /\ c_pos >= c_ppos
    /\ IsSorted(c_timings)

\* C35: under steady playback with no events, after every advance call the
\* current mark of the cursor is the last mark whose time is at most the
\* position plus half a tick, also when several marks fall within one tick
\* or a tick arrives late.
C35_CursorNeverLags ==
    AdvancedSteadily =>
        c_state.v.current = LastMarkUpTo(c_timings, c_pos + Tolerance)


-----------------------------------------------------------------------------
\* The listener has just handled the NameOwnerChanged that
\* initial_try_connect_to_player made up because the player's name had an
\* owner when the listener started.
HandledInitialConnect == handled.of = 0 /\ handled.signal = "NameOwnerChanged"

\* C36: if the configured player is already running when the listener
\* starts, exactly one PlayerStarted event is delivered to the loop, before
\* any property or seek event of that player: handling the notification of
\* initial_try_connect_to_player sends one PlayerStarted and subscribes to
\* the player's signals.
C36_RunningPlayerIsAnnounced ==
    HandledInitialConnect =>
        /\ Len(handled.events) = 1
        /\ handled.events[1].kind = "PlayerStarted"
        /\ dbus_proxy_player.subscribed


-----------------------------------------------------------------------------
\* run_sync takes an input from its channel.
Taken == w_rx # <<>> /\ w_rx' = Tail(w_rx) /\ w_handled'.input = Head(w_rx)

\* The file at `path` is there and can be parsed.
Loadable(path) == path.some /\ w_files[path.v] \notin {"missing", "bad"}

\* What a ChangePath request must produce: one LyricsChanged for the new
\* path, with lyrics exactly when the file is there and can be parsed.
ChangePathAnswered ==
    LET input == Head(w_rx)
        sent == w_handled'.sent
    IN  /\ Len(sent) = 1
        /\ sent[1].kind = "LyricsChanged"
        /\ sent[1].file_path = input.file_path
        /\ sent[1].lyrics.some <=> Loadable(input.file_path)
        /\ w_lrc_filepath' = input.file_path

\* What a FileChanged notification must produce: one LyricsChanged exactly
\* when its path is the current lyrics path, and no change of the path or
\* of what is watched.
FileChangedAnswered ==
    LET input == Head(w_rx)
        sent == w_handled'.sent
    IN  /\ Len(sent) <= 1
        /\ sent # <<>> <=> Some(input.file_path) = w_lrc_filepath
        /\ sent # <<>> =>
             /\ sent[1].kind = "LyricsChanged"
             /\ sent[1].lyrics.some <=> Loadable(w_lrc_filepath)
        /\ UNCHANGED <<w_lrc_filepath, w_watched>>

\* A FileChanged notification is answered as it must be, and so is a
\* ChangePath request whose directory is there.
AnsweredWhereWatchable ==
    [][Taken =>
         IF Head(w_rx).kind = "FileChanged" THEN FileChangedAnswered
         ELSE (Head(w_rx).file_path.some
               => Parent(Head(w_rx).file_path.v) \in Dirs)
              => ChangePathAnswered]_vars

\* C37: every ChangePath request produces exactly one LyricsChanged event
\* for the new path (with absent lyrics when the path is absent, the file
\* is missing or it fails to parse); a FileChanged notification produces a
\* LyricsChanged event if and only if its path equals the current lyrics
\* path, and never changes the current path or the watched directory.
C37_RequestsAnswered ==
    [][Taken =>
         IF Head(w_rx).kind = "FileChanged" THEN FileChangedAnswered
         ELSE ChangePathAnswered]_vars


-----------------------------------------------------------------------------
\* The lines of the loaded lyrics model, None when no model is loaded.
ModelLines == IF lrc.some THEN Some(lrc.v.lyrics.lines) ELSE None

\* The lyrics and the path of the model, without the queue of its watcher.
ModelOf(l) ==
    IF l.some
    THEN Some([lyrics |-> l.v.lyrics, lrc_filepath |-> l.v.lrc_filepath])
    ELSE None

\* An iteration of the loop has come to its end.
TickEnded == step.kind \in {"tail", "top"} /\ pc # "panicked"

\* C38: at the end of every tick the lyrics-lines cache served to queries
\* equals the lines of the loaded lyrics model and is absent exactly when
\* no model is loaded; every replacement or clearing of the model comes with
\* a lyrics-changed notification in the same step of the loop.
C38_LinesCacheFollowsModel ==
    /\ [](TickEnded => /\ active_lyrics_lines = ModelLines
                       /\ active_lyrics_lines.some <=> lrc.some)
    /\ [][ModelOf(lrc') # ModelOf(lrc) => step'.lyrics_changed = 1]_vars

\* A tick has ended in which the model was replaced by one with other
\* lines, after a tick in which it was cleared.
C38_Witness ==
    /\ TickEnded
    /\ step.kind = "tail"
    /\ step.lyrics_changed = 1
    /\ lrc.some
    /\ active_lyrics_lines = Some(lrc.v.lyrics.lines)
    /\ lrc.v.lyrics.lines # <<>>


-----------------------------------------------------------------------------
\* What a query handler finds in the two caches when it reads them now: the
\* segment is absent, or its line is one of the cached lines.
SegmentWithinLines(timing, lines) ==
    timing.some =>
        /\ lines.some
        /\ timing.v.line_index < Len(lines.v)

\* C39: whenever a query handler reads the cached current segment and the
\* cached lyrics lines, the segment is absent or its line_index is within
\* the bounds of those lines; a reload to a shorter lyrics file never leaves
\* a segment that points past the end of the new lines.
C39_SegmentWithinCachedLines ==
    pc # "panicked" => SegmentWithinLines(current_timing, active_lyrics_lines)


-----------------------------------------------------------------------------
\* C40: at the end of every tick a cursor exists if and only if both a
\* player state and a lyrics model exist: when an iteration of the loop has
\* run to its end, lrc_state is Some exactly when progress and lrc are.
C40_CursorIffPlayerAndLyrics ==
    (step.kind = "tail" /\ pc # "panicked") =>
        (lrc_state.some <=> (progress.some /\ lrc.some))

====
